---------------------------- MODULE Spec2Model ----------------------------
(***************************************************************************)
(* A model of ckeylock's server: the Storage engine (map, LRU cache,       *)
(* encrypted snapshot file, dirty-check checksum), the Executor that owns  *)
(* it, and the WebSocket handshake and per-connection request handling.    *)
(*                                                                         *)
(* Byte strings are sequences of naturals.  A byte string that is hashed   *)
(* or written to the snapshot file is a record of one shape, so that a     *)
(* plaintext encoding and an AES-GCM blob can be compared:                 *)
(*   enc   - FALSE for a plaintext, TRUE for nonce || ciphertext || tag    *)
(*   nonce - the 12-byte nonce the blob starts with                        *)
(*   key   - the AES key the ciphertext was sealed under                   *)
(*   body  - the plaintext (for a blob: the plaintext that was sealed)     *)
(*   whole - FALSE for a file that is missing, empty or cut short          *)
(* AES-256-GCM and SHA3-256 are the ideal ones: a blob opens only under    *)
(* the key that sealed it, and two digests are equal only for equal input. *)
(***************************************************************************)
EXTENDS Integers, Sequences, FiniteSets, TLC

(* Bounds of the model *)
\* how many distinct keys the clients use
NumKeys == 2
\* capacity of the LRU cache: 100 in storage.rs, scaled down here so that the
\* cache fills and evicts with NumKeys keys
LRU_CACHE_SIZE == 1
\* how many connections the clients open
NumConns == 2
\* how many request frames the clients send in all
MaxRequests == 2
\* capacity of the Executor's command channel: 32 in executor.rs, scaled down
\* here so that the channel fills with MaxRequests requests
MailboxCapacity == 1

\* the largest per-connection limit of concurrent handlers that is configured
MaxWorkers == 1

VARIABLES
    running,    \* a Storage instance exists (the server process is up)
    aes,        \* Storage.aes: the cipher key of the running instance
    data,       \* Storage.data: the map, a function from its keys to values
    cache,      \* Storage.cache: entries [k, v], most recently used first
    checksum,   \* Storage.checksum
    file,       \* the bytes of the snapshot file at dump_path
    last,       \* observer: the last Storage call and what it returned
    lastMut,    \* observer: the last mutating call (Set, Delete, Clear)
    afterSet,   \* observer: the mutating call before lastMut was a Set of
                \* the key of lastMut
    openedEmpty, \* observer: the running Storage was created by new_empty
    live,       \* observer: keys Set and not afterwards Deleted or Cleared
    recency,    \* observer: the keys of the map this Storage has touched (by
                \* a Set or a Get that found the key), last touched first
    password,   \* conf.password: Option<String>
    concurrent_limit, \* the limit given to WsServer::new: Option<usize>
    conn,       \* per connection: how its upgrade ended and the header it sent
    reqs,       \* the request frames the clients sent, in the order sent, each
                \* with the place its handler has reached, the reply of the
                \* Executor, (seq) its place among the commands the
                \* Executor has taken, 0 before it is taken, and (lock)
                \* whether its handler holds the guard of the write half
    mailbox,    \* the Executor's command channel: indices into reqs
    wire,       \* per connection: the frames the server wrote to it
    client      \* the CKeyLockConnection of a client program on connection
                \* ClientConn: the place and the request id of each of its
                \* send_request calls, the call that holds the Mutex of the
                \* stream, how many frames were taken from the stream, and
                \* the frames that were taken and dropped

storageVars == <<running, aes, data, cache, checksum, file>>
obsVars == <<last, lastMut, afterSet, openedEmpty, live, recency>>
serverVars == <<password, concurrent_limit, conn, reqs, mailbox, wire, client>>
vars == <<running, aes, data, cache, checksum, file, recency,
          last, lastMut, afterSet, openedEmpty, live,
          password, concurrent_limit, conn, reqs, mailbox, wire, client>>

-----------------------------------------------------------------------------
(* Keys, values, options *)

\* the i-th key: the empty key, then one-byte keys
KeyOf(i) == IF i = 0 THEN <<>> ELSE <<i>>
Keys == {KeyOf(i) : i \in 0..(NumKeys - 1)}
\* the values the clients use: the empty value and a one-byte value (Storage
\* never looks into a value)
Values == {<<>>, <<7>>}

\* Result<T, StorageError>
Ok(x) == [ok |-> TRUE, val |-> x]
Err(e) == [ok |-> FALSE, val |-> e]

\* Option<Vec<u8>>
None == [some |-> FALSE, val |-> <<>>]
Some(x) == [some |-> TRUE, val |-> x]

\* main: the cipher key is hash(conf.dump_password); the key of the
\* deployment, and the key of a configuration whose dump_password was changed
DumpKey == "hash(dump_password)"
CipherKeys == {DumpKey, "hash(other password)"}
NoKey == ""
\* nonces drawn by the random generator
Nonces == {1, 2}

-----------------------------------------------------------------------------
(* crypto.rs *)

Plain(content) ==
    [enc |-> FALSE, nonce |-> 0, key |-> NoKey, body |-> content, whole |-> TRUE]

\* AES::encrypt: nonce || ciphertext || tag
Encrypt(key, content, nonce) ==
    [enc |-> TRUE, nonce |-> nonce, key |-> key, body |-> content, whole |-> TRUE]

\* mutant: decrypt that does not check the length and the tag
Decrypt_TagNotChecked(key, blob) ==
    IF blob.enc /\ blob.key = key
    THEN [ok |-> TRUE, content |-> blob.body]
    ELSE [ok |-> FALSE, content |-> <<>>]

\* AES::decrypt: fails on fewer than 12 bytes and when the tag does not verify
Decrypt(key, blob) ==
    IF blob.whole /\ blob.enc /\ blob.key = key
    THEN [ok |-> TRUE, content |-> blob.body]
    ELSE [ok |-> FALSE, content |-> <<>>]

\* hash: SHA3-256
Hash(bytes) == [digest_of |-> bytes]

\* no file at the path
NoFile == [enc |-> FALSE, nonce |-> 0, key |-> NoKey, body |-> <<>>, whole |-> FALSE]
\* a file truncated to zero, or holding only the start of the blob being written
Torn(nonce) ==
    [enc |-> TRUE, nonce |-> nonce, key |-> NoKey, body |-> <<>>, whole |-> FALSE]

\* a blob one byte of which was changed: its tag does not verify
Altered(blob) == [blob EXCEPT !.whole = FALSE]

\* StorageError::Aes, the error of a blob that does not decrypt
AesError == "StorageError::Aes"

-----------------------------------------------------------------------------
(* The map and its bincode encoding *)

EmptyMap == [k \in {} |-> <<>>]
Insert(d, k, v) == [x \in (DOMAIN d) \cup {k} |-> IF x = k THEN v ELSE d[x]]
Remove(d, k) == [x \in (DOMAIN d) \ {k} |-> d[x]]

\* the entries from the i-th key on, each as len(k) k len(v) v
RECURSIVE EncodeEntries(_, _)
EncodeEntries(d, i) ==
    IF i >= NumKeys THEN <<>>
    ELSE (IF KeyOf(i) \in DOMAIN d
          THEN <<Len(KeyOf(i))>> \o KeyOf(i) \o <<Len(d[KeyOf(i)])>> \o d[KeyOf(i)]
          ELSE <<>>) \o EncodeEntries(d, i + 1)

\* bincode::serde::encode_to_vec of the map: the entry count, then the entries
Encode(d) == <<Cardinality(DOMAIN d)>> \o EncodeEntries(d, 0)

\* n entries read from position pos of bytes, added to acc
RECURSIVE DecodeEntries(_, _, _, _)
DecodeEntries(bytes, pos, n, acc) ==
    IF n = 0 THEN acc
    ELSE LET klen == bytes[pos]
             k == SubSeq(bytes, pos + 1, pos + klen)
             vlen == bytes[pos + klen + 1]
             v == SubSeq(bytes, pos + klen + 2, pos + klen + 1 + vlen)
         IN DecodeEntries(bytes, pos + klen + vlen + 2, n - 1, Insert(acc, k, v))

\* bincode::serde::decode_from_slice
Decode(bytes) == DecodeEntries(bytes, 2, bytes[1], EmptyMap)

-----------------------------------------------------------------------------
(* lru::LruCache, as storage.rs uses it *)

CacheHas(c, k) == \E i \in 1..Len(c) : c[i].k = k
CacheIndex(c, k) == CHOOSE i \in 1..Len(c) : c[i].k = k
CacheWithout(c, k) == SelectSeq(c, LAMBDA e : e.k # k)

\* mutant: a put that never evicts
CachePut_NoEviction(c, k, v) ==
    IF CacheHas(c, k) THEN <<[k |-> k, v |-> v]>> \o CacheWithout(c, k)
    ELSE <<[k |-> k, v |-> v]>> \o c

\* LruCache::put: refresh an entry, or insert one and evict the least recent
CachePut(c, k, v) ==
    IF CacheHas(c, k) THEN <<[k |-> k, v |-> v]>> \o CacheWithout(c, k)
    ELSE IF Len(c) >= LRU_CACHE_SIZE
         THEN <<[k |-> k, v |-> v]>> \o SubSeq(c, 1, LRU_CACHE_SIZE - 1)
         ELSE <<[k |-> k, v |-> v]>> \o c

\* LruCache::get: the value of a hit, which becomes the most recent entry
CacheGet(c, k) == IF CacheHas(c, k) THEN Some(c[CacheIndex(c, k)].v) ELSE None
CacheTouch(c, k) ==
    IF CacheHas(c, k) THEN <<c[CacheIndex(c, k)]>> \o CacheWithout(c, k) ELSE c

\* LruCache::pop
CachePop(c, k) == CacheWithout(c, k)

-----------------------------------------------------------------------------
(* storage.rs: Storage *)

\* how a Sync that has to write can end: it succeeds; encode, encrypt or
\* set_len fails (the file is as before); seek, write_all or flush fails (the
\* file is cut short); sync_all fails (the blob is written)
SyncOutcomes == {"ok", "fail_before_truncate", "fail_after_truncate", "fail_sync_all"}

\* Aes256Gcm::generate_nonce: the generator never gives the nonce of the blob
\* now in the file again, so a rewritten file differs from the one before
FreshNonces == {IF file.nonce = 1 THEN 2 ELSE 1}

\* mutant: sync that stores the new checksum before it writes the file
Sync_ChecksumFirst(d, outcome, nonce) ==
    LET content == Encode(d)
        new_checksum == Hash(Plain(content))
        encrypted_content == Encrypt(aes, content, nonce)
    IN IF new_checksum # checksum
       THEN CASE outcome = "ok" ->
                   [file |-> encrypted_content, checksum |-> new_checksum, res |-> Ok("unit")]
              [] outcome = "fail_before_truncate" ->
                   [file |-> file, checksum |-> new_checksum, res |-> Err("StorageError")]
              [] outcome = "fail_after_truncate" ->
                   [file |-> Torn(nonce), checksum |-> new_checksum, res |-> Err("StorageError")]
              [] outcome = "fail_sync_all" ->
                   [file |-> encrypted_content, checksum |-> new_checksum, res |-> Err("StorageError")]
       ELSE [file |-> file, checksum |-> checksum, res |-> Ok("unit")]

\* Storage::sync on the map d: the file, the checksum and the result after it
Sync(d, outcome, nonce) ==
    LET content == Encode(d)
        new_checksum == Hash(Plain(content))
        encrypted_content == Encrypt(aes, content, nonce)
    IN IF new_checksum # checksum
       THEN CASE outcome = "ok" ->
                   [file |-> encrypted_content, checksum |-> new_checksum, res |-> Ok("unit")]
              [] outcome = "fail_before_truncate" ->
                   [file |-> file, checksum |-> checksum, res |-> Err("StorageError")]
              [] outcome = "fail_after_truncate" ->
                   [file |-> Torn(nonce), checksum |-> checksum, res |-> Err("StorageError")]
              [] outcome = "fail_sync_all" ->
                   [file |-> encrypted_content, checksum |-> checksum, res |-> Err("StorageError")]
       ELSE [file |-> file, checksum |-> checksum, res |-> Ok("unit")]

\* Each operation gives the Storage fields after the call and what it returns.

\* mutant: set that leaves the cache as it was
StorageSet_CacheNotUpdated(key, value) ==
    [data |-> Insert(data, key, value),
     cache |-> cache,
     file |-> file, checksum |-> checksum,
     res |-> Ok(key)]

\* mutant: set that keeps the value of a key the map already holds
StorageSet_KeepsOld(key, value) ==
    [data |-> IF key \in DOMAIN data THEN data ELSE Insert(data, key, value),
     cache |-> CachePut(cache, key, value),
     file |-> file, checksum |-> checksum,
     res |-> Ok(key)]

\* Storage::set
StorageSet(key, value) ==
    [data |-> Insert(data, key, value),
     cache |-> CachePut(cache, key, value),
     file |-> file, checksum |-> checksum,
     res |-> Ok(key)]

\* Storage::get
StorageGet(key) ==
    IF CacheHas(cache, key)
    THEN [data |-> data, cache |-> CacheTouch(cache, key),
          file |-> file, checksum |-> checksum,
          res |-> Ok(CacheGet(cache, key))]
    ELSE IF key \in DOMAIN data
         THEN [data |-> data, cache |-> CachePut(cache, key, data[key]),
               file |-> file, checksum |-> checksum,
               res |-> Ok(Some(data[key]))]
         ELSE [data |-> data, cache |-> cache,
               file |-> file, checksum |-> checksum,
               res |-> Ok(None)]

\* mutant: delete that returns absence whether or not the key was in the map
StorageDelete_NeverKey(key, outcome, nonce) ==
    LET removed == Remove(data, key)
        s == Sync(removed, outcome, nonce)
    IN [data |-> removed, cache |-> CachePop(cache, key),
        file |-> s.file, checksum |-> s.checksum,
        res |-> IF s.res.ok THEN Ok(None) ELSE s.res]

\* mutant: delete that evicts the key only when its Sync did not fail
StorageDelete_PopAfterSync(key, outcome, nonce) ==
    LET value == IF key \in DOMAIN data THEN Some(key) ELSE None
        removed == Remove(data, key)
        s == Sync(removed, outcome, nonce)
    IN [data |-> removed,
        cache |-> IF s.res.ok THEN CachePop(cache, key) ELSE cache,
        file |-> s.file, checksum |-> s.checksum,
        res |-> IF s.res.ok THEN Ok(value) ELSE s.res]

\* mutant: delete that puts the entry back when Sync fails
StorageDelete_RolledBack(key, outcome, nonce) ==
    LET value == IF key \in DOMAIN data THEN Some(key) ELSE None
        removed == Remove(data, key)
        s == Sync(removed, outcome, nonce)
    IN [data |-> IF s.res.ok THEN removed ELSE data,
        cache |-> CachePop(cache, key),
        file |-> s.file, checksum |-> s.checksum,
        res |-> IF s.res.ok THEN Ok(value) ELSE s.res]

\* mutant: delete that leaves the key in the cache
StorageDelete_CacheKept(key, outcome, nonce) ==
    LET value == IF key \in DOMAIN data THEN Some(key) ELSE None
        removed == Remove(data, key)
        s == Sync(removed, outcome, nonce)
    IN [data |-> removed, cache |-> cache,
        file |-> s.file, checksum |-> s.checksum,
        res |-> IF s.res.ok THEN Ok(value) ELSE s.res]

\* Storage::delete
StorageDelete(key, outcome, nonce) ==
    LET value == IF key \in DOMAIN data THEN Some(key) ELSE None
        removed == Remove(data, key)
        s == Sync(removed, outcome, nonce)
    IN [data |-> removed, cache |-> CachePop(cache, key),
        file |-> s.file, checksum |-> s.checksum,
        res |-> IF s.res.ok THEN Ok(value) ELSE s.res]

\* the keys of d from the i-th on, in the map's iteration order
RECURSIVE KeysFrom(_, _)
KeysFrom(d, i) ==
    IF i >= NumKeys THEN <<>>
    ELSE (IF KeyOf(i) \in DOMAIN d THEN <<KeyOf(i)>> ELSE <<>>) \o KeysFrom(d, i + 1)

\* mutant: list that reads the keys of the cache
StorageList_FromCache ==
    [data |-> data, cache |-> cache, file |-> file, checksum |-> checksum,
     res |-> Ok([i \in 1..Len(cache) |-> cache[i].k])]

\* Storage::list
StorageList ==
    [data |-> data, cache |-> cache, file |-> file, checksum |-> checksum,
     res |-> Ok(KeysFrom(data, 0))]

\* Storage::exists
\* mutant: exists that puts the entry it found into the cache
StorageExists_Populates(key) ==
    [data |-> data,
     cache |-> IF key \in DOMAIN data THEN CachePut(cache, key, data[key]) ELSE cache,
     file |-> file, checksum |-> checksum,
     res |-> Ok(key \in DOMAIN data)]

StorageExists(key) ==
    [data |-> data, cache |-> cache, file |-> file, checksum |-> checksum,
     res |-> Ok(key \in DOMAIN data)]

\* Storage::count
StorageCount ==
    [data |-> data, cache |-> cache, file |-> file, checksum |-> checksum,
     res |-> Ok(Cardinality(DOMAIN data))]

\* mutant: clear that empties the map and not the cache
StorageClear_CacheKept(outcome, nonce) ==
    LET s == Sync(EmptyMap, outcome, nonce)
    IN [data |-> EmptyMap, cache |-> cache,
        file |-> s.file, checksum |-> s.checksum,
        res |-> s.res]

\* mutant: clear that empties the cache and not the map
StorageClear_MapKept(outcome, nonce) ==
    LET s == Sync(data, outcome, nonce)
    IN [data |-> data, cache |-> <<>>,
        file |-> s.file, checksum |-> s.checksum,
        res |-> s.res]

\* Storage::clear
StorageClear(outcome, nonce) ==
    LET s == Sync(EmptyMap, outcome, nonce)
    IN [data |-> EmptyMap, cache |-> <<>>,
        file |-> s.file, checksum |-> s.checksum,
        res |-> s.res]

\* the Storage fields become those the operation gives
Apply(r) ==
    /\ data' = r.data
    /\ cache' = r.cache
    /\ file' = r.file
    /\ checksum' = r.checksum
    /\ UNCHANGED <<running, aes>>

\* mutant: new_empty that keeps the digest of the bytes it wrote to the file
NewEmpty_DigestOfFile(key, nonce) ==
    /\ running' = TRUE
    /\ aes' = key
    /\ data' = EmptyMap
    /\ cache' = <<>>
    /\ checksum' = Hash(Encrypt(key, Encode(EmptyMap), nonce))
    /\ file' = Encrypt(key, Encode(EmptyMap), nonce)

\* Storage::new_empty: the file is created holding the empty map's blob
NewEmpty(key, nonce) ==
    /\ running' = TRUE
    /\ aes' = key
    /\ data' = EmptyMap
    /\ cache' = <<>>
    /\ checksum' = Hash(Plain(Encode(EmptyMap)))
    /\ file' = Encrypt(key, Encode(EmptyMap), nonce)

\* Storage::from_file: the file read, decrypted and decoded; a blob that does
\* not open fails the start (main panics)
FromFile(key) ==
    LET content == file
        decrypted_content == Decrypt(key, content)
    IN IF decrypted_content.ok
       THEN /\ running' = TRUE
            /\ aes' = key
            /\ data' = Decode(decrypted_content.content)
            /\ cache' = <<>>
            /\ checksum' = Hash(content)
            /\ UNCHANGED file
       ELSE UNCHANGED storageVars

\* Storage::new
StorageNew(key, nonce) ==
    IF file # NoFile THEN FromFile(key) ELSE NewEmpty(key, nonce)

-----------------------------------------------------------------------------
(* ws.rs and executor.rs: handshake, requests, responses *)

Conns == 1..NumConns

\* Option<String>
NoString == [some |-> FALSE, val |-> ""]
SomeString(x) == [some |-> TRUE, val |-> x]

\* Option<usize>
NoLimit == [some |-> FALSE, val |-> 0]
SomeLimit(n) == [some |-> TRUE, val |-> n]

\* the concurrent_limit of a deployment: none, or a number including 0
Limits == {NoLimit} \cup {SomeLimit(n) : n \in 0..MaxWorkers}

\* conf.password: absent, or the password of the deployment
ServerPassword == "sesame"
Passwords == {NoString, SomeString(ServerPassword)}

\* the Authorization header of an upgrade request: absent, the password,
\* another string, or bytes that are not visible ASCII
OpaqueHeader == "bytes above 0x7f"
Headers == {NoString, SomeString(ServerPassword), SomeString("guess"),
            SomeString(OpaqueHeader)}

\* HeaderValue::to_str
ToStr(header_value) ==
    IF header_value = OpaqueHeader THEN Err("ToStrError") ELSE Ok(header_value)

\* mutant: a callback that lets an upgrade without the header through
HandshakeCallback_MissingHeaderAccepted(pw, header) ==
    IF header.some
    THEN IF ~ToStr(header.val).ok THEN "panic"
         ELSE IF pw.some
              THEN IF header.val = pw.val THEN "accept" ELSE "reject"
              ELSE "reject"
    ELSE "accept"

\* the handshake callback: "accept" for Ok(res), "reject" for
\* Err(ErrorResponse), "panic" for the unwrap of a header that is no string
HandshakeCallback(pw, header) ==
    IF header.some
    THEN IF ~ToStr(header.val).ok THEN "panic"
         ELSE IF pw.some
              THEN IF header.val = pw.val THEN "accept" ELSE "reject"
              ELSE "reject"
    ELSE IF pw.some THEN "reject" ELSE "accept"

\* a connection: state is "none" before the client connects, then "open"
\* (the message loop runs), "rejected" (the handshake failed, the task ended)
\* or "panicked" (the task died in the callback)
NoConn == [state |-> "none", header |-> NoString]

\* Request
Request(op, key, value) == [op |-> op, key |-> key, value |-> value]
\* the requests the clients send to the server: every variant, on one key
Requests ==
    {Request("Set", KeyOf(1), <<7>>), Request("Get", KeyOf(1), <<>>),
     Request("Delete", KeyOf(1), <<>>), Request("List", <<>>, <<>>),
     Request("Exists", KeyOf(1), <<>>), Request("Count", <<>>, <<>>),
     Request("Clear", <<>>, <<>>)}

\* the text of a frame that is no RequestWrapper in JSON
Garbage == Request("not json", <<>>, <<>>)

\* a frame of type Close, where the others are of type Text
CloseFrame == Request("(Close frame)", <<>>, <<>>)
IsClose(frame) == frame = CloseFrame

\* frames of type Ping and Binary
PingFrame == Request("(Ping frame)", <<>>, <<>>)
BinaryFrame == Request("(Binary frame)", <<>>, <<>>)

\* what the read half yields when the transport fails (an Err item), and the
\* end of the stream when the client is gone
TransportError == Request("(transport error)", <<>>, <<>>)
StreamEnd == Request("(end of stream)", <<>>, <<>>)
EndsStream(item) == item \in {TransportError, StreamEnd}
RequestKinds == {"Set", "Get", "Delete", "List", "Exists", "Count", "Clear"}

\* serde_json::from_str::<RequestWrapper>
FromStr(text) ==
    IF text.op \in RequestKinds THEN Ok(text)
    ELSE Err("expected value at line 1 column 1")

\* the oneshot channel of a command before the Executor has answered
NoReply == Err("pending")

\* Response::new(Some(data), message, reqid)
Response(variant, val, reqid) ==
    [kind |-> "Response", reqid |-> reqid, variant |-> variant, val |-> val]

\* mutant: execute whose Exists arm wraps the reply as the Get arm does
Execute_ExistsAsGet(request, reqid, reply) ==
    IF ~reply.ok /\ request.op # "Clear" THEN reply
    ELSE CASE request.op = "Set" -> Ok(Response("SetResponse", reply.val, reqid))
           [] request.op = "Get" -> Ok(Response("GetResponse", reply.val, reqid))
           [] request.op = "Delete" -> Ok(Response("DeleteResponse", reply.val, reqid))
           [] request.op = "List" -> Ok(Response("ListResponse", reply.val, reqid))
           [] request.op = "Exists" -> Ok(Response("GetResponse", reply.val, reqid))
           [] request.op = "Count" -> Ok(Response("CountResponse", reply.val, reqid))
           [] request.op = "Clear" -> Ok(Response("ClearResponse", "unit", reqid))

\* Executor::execute, after the command was sent and `reply` came back on the
\* oneshot channel
Execute(request, reqid, reply) ==
    CASE request.op = "Set" ->
            IF reply.ok THEN Ok(Response("SetResponse", reply.val, reqid)) ELSE reply
      [] request.op = "Get" ->
            IF reply.ok THEN Ok(Response("GetResponse", reply.val, reqid)) ELSE reply
      [] request.op = "Delete" ->
            IF reply.ok THEN Ok(Response("DeleteResponse", reply.val, reqid)) ELSE reply
      [] request.op = "List" ->
            IF reply.ok THEN Ok(Response("ListResponse", reply.val, reqid)) ELSE reply
      [] request.op = "Exists" ->
            IF reply.ok THEN Ok(Response("ExistsResponse", reply.val, reqid)) ELSE reply
      [] request.op = "Count" ->
            IF reply.ok THEN Ok(Response("CountResponse", reply.val, reqid)) ELSE reply
      [] request.op = "Clear" ->
            Ok(Response("ClearResponse", "unit", reqid))

\* Message::Text: a text frame and what it carries
Text(payload) == [type |-> "Text", payload |-> payload]

\* Message::Close
CloseMessage == [type |-> "Close", payload |-> [kind |-> "Close"]]

\* Message::Pong
PongMessage == [type |-> "Pong", payload |-> [kind |-> "Pong"]]

\* response_into_message
ResponseIntoMessage(res) == Text(res)

\* error_into_message
ErrorIntoMessage(err, reqid) ==
    Text([kind |-> "ErrorResponse", reqid |-> reqid, message |-> err])

\* mutant: a command loop whose Delete arm calls get
StorageCall_DeleteAsGet(request, outcome, nonce) ==
    CASE request.op = "Set" -> StorageSet(request.key, request.value)
      [] request.op = "Get" -> StorageGet(request.key)
      [] request.op = "Delete" -> StorageGet(request.key)
      [] request.op = "List" -> StorageList
      [] request.op = "Exists" -> StorageExists(request.key)
      [] request.op = "Count" -> StorageCount
      [] request.op = "Clear" -> StorageClear(outcome, nonce)

\* the Storage call the Executor makes for a command
StorageCall(request, outcome, nonce) ==
    CASE request.op = "Set" -> StorageSet(request.key, request.value)
      [] request.op = "Get" -> StorageGet(request.key)
      [] request.op = "Delete" -> StorageDelete(request.key, outcome, nonce)
      [] request.op = "List" -> StorageList
      [] request.op = "Exists" -> StorageExists(request.key)
      [] request.op = "Count" -> StorageCount
      [] request.op = "Clear" -> StorageClear(outcome, nonce)

-----------------------------------------------------------------------------
(* Observers: what a test harness calling Storage would write down *)

NoCall == [op |-> "none", key |-> <<>>, value |-> <<>>, res |-> Ok("unit")]
Call(op, key, value, res) == [op |-> op, key |-> key, value |-> value, res |-> res]
Mutations == {"Set", "Delete", "Clear"}

\* the key k becomes the one touched last; the key k is forgotten
Untouch(r, k) == SelectSeq(r, LAMBDA x : x # k)
Touch(r, k) == <<k>> \o Untouch(r, k)

Observe(op, key, value, res) ==
    /\ last' = Call(op, key, value, res)
    /\ IF op \in Mutations
       THEN /\ lastMut' = Call(op, key, value, res)
            /\ afterSet' = (lastMut.op = "Set" /\ lastMut.key = key)
       ELSE UNCHANGED <<lastMut, afterSet>>
    /\ live' = IF ~openedEmpty THEN live
               ELSE CASE op = "Set" -> live \cup {key}
                      [] op = "Delete" -> live \ {key}
                      [] op = "Clear" -> {}
                      [] OTHER -> live
    /\ recency' = CASE op = "Set" -> Touch(recency, key)
                     [] op = "Get" /\ res.val.some -> Touch(recency, key)
                     [] op = "Delete" -> Untouch(recency, key)
                     [] op = "Clear" -> <<>>
                     [] OTHER -> recency
    /\ UNCHANGED openedEmpty

-----------------------------------------------------------------------------
(* The Storage state machine: the process starts and stops, and between the *)
(* two the Storage operations are called one at a time, as the Executor     *)
(* calls them.                                                              *)

InitStorage ==
    /\ running = FALSE
    /\ aes = NoKey
    /\ data = EmptyMap
    /\ cache = <<>>
    /\ checksum = Hash(NoFile)
    /\ file = NoFile
    /\ last = NoCall
    /\ lastMut = NoCall
    /\ afterSet = FALSE
    /\ openedEmpty = FALSE
    /\ live = {}
    /\ recency = <<>>

\* the send_request calls that a client program runs at the same time on
\* its CKeyLockConnection, and the connection it is
Calls == {1, 2}
ClientConn == 1

\* no call of the client library has started
NoCalls ==
    [calls |-> [k \in Calls |-> [pc |-> "start", id |-> 0, got |-> 0]],
     holder |-> 0, taken |-> 0, dropped |-> {}]

\* no connection yet, nothing sent
InitConns ==
    /\ conn = [c \in Conns |-> NoConn]
    /\ reqs = <<>>
    /\ mailbox = <<>>
    /\ wire = [c \in Conns |-> <<>>]
    /\ client = NoCalls

Init == InitStorage /\ InitConns /\ password = NoString /\ concurrent_limit = NoLimit

\* main: Storage::new(conf.dump_path, aes)
Start(key, nonce) ==
    /\ ~running
    /\ StorageNew(key, nonce)
    /\ last' = Call("Open", <<>>, <<>>,
                    IF running' THEN Ok("unit") ELSE Err(AesError))
    /\ openedEmpty' = (file = NoFile)
    /\ live' = {}
    /\ recency' = <<>>
    /\ UNCHANGED <<lastMut, afterSet>>
    /\ UNCHANGED serverVars

\* while the server is down the snapshot file is changed from outside: one
\* byte of it is altered, or it is cut to fewer than 12 bytes
TamperKinds == {"alter", "cut"}

Tamper(kind) ==
    /\ ~running
    /\ file # NoFile /\ file.whole
    /\ file' = (IF kind = "alter" THEN Altered(file) ELSE Torn(file.nonce))
    /\ last' = Call("Tamper", <<>>, <<>>, Ok("unit"))
    /\ UNCHANGED <<running, aes, data, cache, checksum>>
    /\ UNCHANGED <<lastMut, afterSet, openedEmpty, live, recency>>
    /\ UNCHANGED serverVars

\* the process ends: what was in memory is gone, the file stays
Stop ==
    /\ running
    /\ running' = FALSE
    /\ aes' = NoKey
    /\ data' = EmptyMap
    /\ cache' = <<>>
    /\ checksum' = Hash(NoFile)
    /\ UNCHANGED file
    /\ last' = Call("Stop", <<>>, <<>>, Ok("unit"))
    /\ openedEmpty' = FALSE
    /\ live' = {}
    /\ recency' = <<>>
    /\ UNCHANGED <<lastMut, afterSet>>
    /\ UNCHANGED serverVars

Set(key, value) ==
    /\ running
    /\ LET r == StorageSet(key, value)
       IN Apply(r) /\ Observe("Set", key, value, r.res)
    /\ UNCHANGED serverVars

Get(key) ==
    /\ running
    /\ LET r == StorageGet(key)
       IN Apply(r) /\ Observe("Get", key, <<>>, r.res)
    /\ UNCHANGED serverVars

Delete(key, outcome, nonce) ==
    /\ running
    /\ LET r == StorageDelete(key, outcome, nonce)
       IN Apply(r) /\ Observe("Delete", key, <<>>, r.res)
    /\ UNCHANGED serverVars

List ==
    /\ running
    /\ LET r == StorageList
       IN Apply(r) /\ Observe("List", <<>>, <<>>, r.res)
    /\ UNCHANGED serverVars

Exists(key) ==
    /\ running
    /\ LET r == StorageExists(key)
       IN Apply(r) /\ Observe("Exists", key, <<>>, r.res)
    /\ UNCHANGED serverVars

Count ==
    /\ running
    /\ LET r == StorageCount
       IN Apply(r) /\ Observe("Count", <<>>, <<>>, r.res)
    /\ UNCHANGED serverVars

Clear(outcome, nonce) ==
    /\ running
    /\ LET r == StorageClear(outcome, nonce)
       IN Apply(r) /\ Observe("Clear", <<>>, <<>>, r.res)
    /\ UNCHANGED serverVars

\* Spec: one Storage, opened on a path that does not exist and called until
\* the end; a Sync that has to write succeeds or fails part-way.
WriteOutcomes == {"ok", "fail_after_truncate"}

Next ==
    \/ \E nonce \in FreshNonces : Start(DumpKey, nonce)
    \/ \E key \in Keys, value \in Values : Set(key, value)
    \/ \E key \in Keys : Get(key)
    \/ \E key \in Keys, outcome \in WriteOutcomes, nonce \in FreshNonces :
          Delete(key, outcome, nonce)
    \/ List
    \/ \E key \in Keys : Exists(key)
    \/ Count
    \/ \E outcome \in WriteOutcomes, nonce \in FreshNonces : Clear(outcome, nonce)

Spec == Init /\ [][Next]_vars

\* SpecRestart: the process also stops and starts again on the file it left,
\* with the same or another dump_password, and a Sync can fail at every step.
NextRestart ==
    \/ \E key \in CipherKeys, nonce \in FreshNonces :
          (file = NoFile => key = DumpKey) /\ Start(key, nonce)
    \/ Stop
    \/ \E key \in Keys, value \in Values : Set(key, value)
    \/ \E key \in Keys : Get(key)
    \/ \E key \in Keys, outcome \in SyncOutcomes, nonce \in FreshNonces :
          Delete(key, outcome, nonce)
    \/ List
    \/ \E key \in Keys : Exists(key)
    \/ Count
    \/ \E outcome \in SyncOutcomes, nonce \in FreshNonces : Clear(outcome, nonce)

SpecRestart == Init /\ [][NextRestart]_vars

\* SpecCache: one Storage whose entries are set, looked up and deleted, and
\* whose Sync does not fail
NextCache ==
    \/ \E nonce \in FreshNonces : Start(DumpKey, nonce)
    \/ \E key \in Keys, value \in Values : Set(key, value)
    \/ \E key \in Keys : Get(key)
    \/ \E key \in Keys, nonce \in FreshNonces : Delete(key, "ok", nonce)

SpecCache == Init /\ [][NextCache]_vars

\* SpecReads: as SpecCache, with the calls that only read the map
NextReads ==
    \/ \E nonce \in FreshNonces : Start(DumpKey, nonce)
    \/ \E key \in Keys, value \in Values : Set(key, value)
    \/ \E key \in Keys : Get(key)
    \/ \E key \in Keys, nonce \in FreshNonces : Delete(key, "ok", nonce)
    \/ List
    \/ \E key \in Keys : Exists(key)
    \/ Count

SpecReads == Init /\ [][NextReads]_vars

\* SpecReopen: the process stops and starts again on the file it left, with
\* the same or another dump_password; the map is read, set and cleared, and
\* no Sync fails.
NextReopen ==
    \/ \E key \in CipherKeys, nonce \in FreshNonces :
          (file = NoFile => key = DumpKey) /\ Start(key, nonce)
    \/ Stop
    \/ \E key \in Keys, value \in Values : Set(key, value)
    \/ \E key \in Keys : Get(key)
    \/ Count
    \/ \E nonce \in FreshNonces : Clear("ok", nonce)

SpecReopen == Init /\ [][NextReopen]_vars

\* SpecSync: one Storage that is stopped and opened again on the file it
\* left; keys are set and deleted and the map is cleared, and a Sync that has
\* to write ends in each of the ways it can
NextSync ==
    \/ \E nonce \in FreshNonces : Start(DumpKey, nonce)
    \/ Stop
    \/ \E key \in Keys : Set(key, <<7>>)
    \/ \E key \in Keys, outcome \in SyncOutcomes, nonce \in FreshNonces :
          Delete(key, outcome, nonce)
    \/ \E outcome \in SyncOutcomes, nonce \in FreshNonces : Clear(outcome, nonce)

SpecSync == Init /\ [][NextSync]_vars

-----------------------------------------------------------------------------
(* The server: clients connect and send request frames; each connection's   *)
(* task reads its frames and runs a handler per frame; the Executor takes   *)
(* the commands one at a time.                                              *)

\* a client connects and asks for the upgrade; the connection's task runs
\* the handshake callback
Upgrade(c, header) ==
    /\ running
    /\ conn[c].state = "none"
    /\ LET verdict == HandshakeCallback(password, header)
       IN conn' = [conn EXCEPT ![c] =
                     [state |-> CASE verdict = "accept" -> "open"
                                  [] verdict = "reject" -> "rejected"
                                  [] OTHER -> "panicked",
                      header |-> header]]
    /\ UNCHANGED <<client, password, concurrent_limit, reqs, mailbox, wire>>
    /\ UNCHANGED <<storageVars, obsVars>>

\* the frames the client of connection c has sent
SentOn(c) == {i \in DOMAIN reqs : reqs[i].conn = c}

\* a client writes a Text frame holding a RequestWrapper to its socket; the
\* id of the request is one the client has not used on this connection (two
\* connections may use the same id)
ClientSend(c, request) ==
    /\ conn[c].state # "none"
    /\ Len(reqs) < MaxRequests
    /\ reqs' = Append(reqs, [conn |-> c, id |-> Cardinality(SentOn(c)) + 1,
                             req |-> request,
                             pc |-> "socket", reply |-> NoReply, seq |-> 0,
                             lock |-> FALSE])
    /\ UNCHANGED <<client, password, concurrent_limit, conn, mailbox, wire>>
    /\ UNCHANGED <<storageVars, obsVars>>

\* mutant: a channel without a bound
SendCommand_Unbounded(i) ==
    /\ mailbox' = Append(mailbox, i)
    /\ reqs' = [reqs EXCEPT ![i].pc = "queued"]

\* the command of request i goes into the channel if there is room
SendCommand(i) ==
    IF Len(mailbox) < MailboxCapacity
    THEN /\ mailbox' = Append(mailbox, i)
         /\ reqs' = [reqs EXCEPT ![i].pc = "queued"]
    ELSE /\ reqs' = [reqs EXCEPT ![i].pc = "sending"]
         /\ UNCHANGED mailbox

\* the frames of connection c whose handler has started and not ended
InFlight(c) ==
    {i \in SentOn(c) : reqs[i].pc \in {"undecoded", "sending", "queued", "replied",
                                       "closing", "writing", "flushing", "pinged"}}

\* mutant: a limit of 1 taken as no limit, like 0
EffectiveLimit_FromTwo(limit) == IF limit.some /\ limit.val > 1 THEN limit ELSE NoLimit

\* for_each_concurrent takes a limit of 0 as no limit
EffectiveLimit(limit) == IF limit.some /\ limit.val > 0 THEN limit ELSE NoLimit

\* mutant: a stream that polls for one more frame when the limit is reached
MayRead_OneMore(c) ==
    LET limit == EffectiveLimit(concurrent_limit)
    IN limit.some => Cardinality(InFlight(c)) <= limit.val

\* for_each_concurrent polls the read half for the next frame only while
\* fewer handlers than the limit are running
MayRead(c) ==
    LET limit == EffectiveLimit(concurrent_limit)
    IN limit.some => Cardinality(InFlight(c)) < limit.val

\* mutant: a transport error or the end of one stream ends the message loop
\* of every connection
Receive_EndsEveryStream(i) ==
    /\ i \in DOMAIN reqs
    /\ reqs[i].pc = "socket"
    /\ conn[reqs[i].conn].state = "open"
    /\ \A j \in 1..(i - 1) : reqs[j].conn = reqs[i].conn => reqs[j].pc # "socket"
    /\ MayRead(reqs[i].conn)
    /\ CASE IsClose(reqs[i].req) ->
               /\ reqs' = [reqs EXCEPT ![i].pc = "closing"]
               /\ conn' = [conn EXCEPT ![reqs[i].conn].state = "closing"]
               /\ UNCHANGED mailbox
         [] EndsStream(reqs[i].req) ->
               /\ reqs' = [reqs EXCEPT ![i].pc = "done"]
               /\ conn' = [c \in Conns |->
                           IF conn[c].state = "open"
                           THEN [conn[c] EXCEPT !.state = "ended"] ELSE conn[c]]
               /\ UNCHANGED mailbox
         [] reqs[i].req = PingFrame ->
               /\ reqs' = [reqs EXCEPT ![i].pc = "pinged"]
               /\ UNCHANGED <<conn, mailbox>>
         [] reqs[i].req = BinaryFrame ->
               /\ reqs' = [reqs EXCEPT ![i].pc = "done"]
               /\ UNCHANGED <<conn, mailbox>>
         [] OTHER ->
               /\ IF FromStr(reqs[i].req).ok
                  THEN SendCommand(i)
                  ELSE /\ reqs' = [reqs EXCEPT ![i].pc = "undecoded"]
                       /\ UNCHANGED mailbox
               /\ UNCHANGED conn
    /\ UNCHANGED <<client, password, concurrent_limit, wire>>
    /\ UNCHANGED <<storageVars, obsVars>>

\* the message loop of an open connection reads the next item of its read
\* half and starts its handler. A Text frame is decoded and Executor::execute
\* called, or the handler goes on to send the decode error; with a Close
\* frame the stream ends and the handler goes on to send the Close back; the
\* handler of a Ping goes on to send a Pong; a Binary frame and an error of
\* the transport are logged; after an error, and when the client is gone,
\* the stream has ended
Receive(i) ==
    /\ i \in DOMAIN reqs
    /\ reqs[i].pc = "socket"
    /\ conn[reqs[i].conn].state = "open"
    /\ \A j \in 1..(i - 1) : reqs[j].conn = reqs[i].conn => reqs[j].pc # "socket"
    /\ MayRead(reqs[i].conn)
    /\ CASE IsClose(reqs[i].req) ->
               /\ reqs' = [reqs EXCEPT ![i].pc = "closing"]
               /\ conn' = [conn EXCEPT ![reqs[i].conn].state = "closing"]
               /\ UNCHANGED mailbox
         [] EndsStream(reqs[i].req) ->
               /\ reqs' = [reqs EXCEPT ![i].pc = "done"]
               /\ conn' = [conn EXCEPT ![reqs[i].conn].state = "ended"]
               /\ UNCHANGED mailbox
         [] reqs[i].req = PingFrame ->
               /\ reqs' = [reqs EXCEPT ![i].pc = "pinged"]
               /\ UNCHANGED <<conn, mailbox>>
         [] reqs[i].req = BinaryFrame ->
               /\ reqs' = [reqs EXCEPT ![i].pc = "done"]
               /\ UNCHANGED <<conn, mailbox>>
         [] OTHER ->
               /\ IF FromStr(reqs[i].req).ok
                  THEN SendCommand(i)
                  ELSE /\ reqs' = [reqs EXCEPT ![i].pc = "undecoded"]
                       /\ UNCHANGED mailbox
               /\ UNCHANGED conn
    /\ UNCHANGED <<client, password, concurrent_limit, wire>>
    /\ UNCHANGED <<storageVars, obsVars>>

\* a handler that waited for room in the channel gets it
Enqueue(i) ==
    /\ i \in DOMAIN reqs
    /\ reqs[i].pc = "sending"
    /\ Len(mailbox) < MailboxCapacity
    /\ SendCommand(i)
    /\ UNCHANGED <<client, password, concurrent_limit, conn, wire>>
    /\ UNCHANGED <<storageVars, obsVars>>

\* the commands the Executor has taken so far
Taken == {i \in DOMAIN reqs : reqs[i].seq > 0}

\* the oneshot send of the result: it reaches the handler that waits for it,
\* or fails and is logged when the receiver was dropped
AfterSend(pc) == IF pc = "abandoned" THEN "lost" ELSE "replied"

\* mutant: a loop that ends when the send of a result fails
ExecutorStep_EndsOnClosed(outcome, nonce) ==
    /\ mailbox # <<>>
    /\ reqs[Head(mailbox)].pc # "abandoned"
    /\ LET i == Head(mailbox)
           r == StorageCall(reqs[i].req, outcome, nonce)
       IN /\ Apply(r)
          /\ reqs' = [reqs EXCEPT ![i].pc = AfterSend(reqs[i].pc), ![i].reply = r.res,
                                  ![i].seq = Cardinality(Taken) + 1]
    /\ mailbox' = Tail(mailbox)
    /\ UNCHANGED <<client, password, concurrent_limit, conn, wire>>
    /\ UNCHANGED obsVars

\* the Executor's loop: the next command is taken, the Storage operation is
\* called and its result sent back on the command's oneshot channel
ExecutorStep(outcome, nonce) ==
    /\ mailbox # <<>>
    /\ LET i == Head(mailbox)
           r == StorageCall(reqs[i].req, outcome, nonce)
       IN /\ Apply(r)
          /\ reqs' = [reqs EXCEPT ![i].pc = AfterSend(reqs[i].pc), ![i].reply = r.res,
                                  ![i].seq = Cardinality(Taken) + 1]
    /\ mailbox' = Tail(mailbox)
    /\ UNCHANGED <<client, password, concurrent_limit, conn, wire>>
    /\ UNCHANGED obsVars

\* write.send(message): the frame is written to the connection; after a
\* Close frame was read the send fails, which is logged
Sent(c, message) ==
    IF conn[c].state = "open" THEN Append(wire[c], message) ELSE wire[c]

\* the Mutex of the write half of connection c is locked by a handler
WriteLocked(c) == \E j \in SentOn(c) : reqs[j].lock

\* the frame the handler of request i sends for the result of execute
ReplyMessage(i) ==
    LET response == Execute(reqs[i].req, reqs[i].id, reqs[i].reply)
    IN IF response.ok THEN ResponseIntoMessage(response.val)
       ELSE ErrorIntoMessage(response.val, reqs[i].id)

\* the first and the second half of the bytes of a frame
Fragment(message, part) ==
    [type |-> message.type, payload |-> message.payload, part |-> part]

\* mutant: a handler that writes without waiting for the Mutex
LockWrite_NoWait(i) ==
    /\ i \in DOMAIN reqs
    /\ reqs[i].pc = "replied"
    /\ reqs' = [reqs EXCEPT ![i].pc = "writing", ![i].lock = TRUE]
    /\ UNCHANGED <<client, password, concurrent_limit, conn, mailbox, wire>>
    /\ UNCHANGED <<storageVars, obsVars>>

\* the handler has the result of execute and locks the write half, when no
\* other handler of the connection holds it
LockWrite(i) ==
    /\ i \in DOMAIN reqs
    /\ reqs[i].pc = "replied"
    /\ ~WriteLocked(reqs[i].conn)
    /\ reqs' = [reqs EXCEPT ![i].pc = "writing", ![i].lock = TRUE]
    /\ UNCHANGED <<client, password, concurrent_limit, conn, mailbox, wire>>
    /\ UNCHANGED <<storageVars, obsVars>>

\* mutant: a handler that ends without dropping the guard of the write half
SendTail_KeepsGuard(i) ==
    /\ i \in DOMAIN reqs
    /\ reqs[i].pc = "flushing"
    /\ wire' = [wire EXCEPT ![reqs[i].conn] =
                   Sent(reqs[i].conn, Fragment(ReplyMessage(i), "tail"))]
    /\ reqs' = [reqs EXCEPT ![i].pc = "done"]
    /\ UNCHANGED <<client, password, concurrent_limit, conn, mailbox>>
    /\ UNCHANGED <<storageVars, obsVars>>

\* write.send under the guard: the first half of the frame's bytes goes out
SendHead(i) ==
    /\ i \in DOMAIN reqs
    /\ reqs[i].pc = "writing"
    /\ wire' = [wire EXCEPT ![reqs[i].conn] =
                   Sent(reqs[i].conn, Fragment(ReplyMessage(i), "head"))]
    /\ reqs' = [reqs EXCEPT ![i].pc = "flushing"]
    /\ UNCHANGED <<client, password, concurrent_limit, conn, mailbox>>
    /\ UNCHANGED <<storageVars, obsVars>>

\* the rest of the frame goes out, the send returns and the guard is dropped
SendTail(i) ==
    /\ i \in DOMAIN reqs
    /\ reqs[i].pc = "flushing"
    /\ wire' = [wire EXCEPT ![reqs[i].conn] =
                   Sent(reqs[i].conn, Fragment(ReplyMessage(i), "tail"))]
    /\ reqs' = [reqs EXCEPT ![i].pc = "done", ![i].lock = FALSE]
    /\ UNCHANGED <<client, password, concurrent_limit, conn, mailbox>>
    /\ UNCHANGED <<storageVars, obsVars>>

\* the handler has the result of execute: it locks the write half and sends
\* the Response, or the ErrorResponse with the id of the request
Reply(i) ==
    /\ i \in DOMAIN reqs
    /\ reqs[i].pc = "replied"
    /\ ~WriteLocked(reqs[i].conn)
    /\ LET response == Execute(reqs[i].req, reqs[i].id, reqs[i].reply)
           message == IF response.ok THEN ResponseIntoMessage(response.val)
                      ELSE ErrorIntoMessage(response.val, reqs[i].id)
       IN wire' = [wire EXCEPT ![reqs[i].conn] = Sent(reqs[i].conn, message)]
    /\ reqs' = [reqs EXCEPT ![i].pc = "done"]
    /\ UNCHANGED <<client, password, concurrent_limit, conn, mailbox>>
    /\ UNCHANGED <<storageVars, obsVars>>

\* mutant: a handler that ends the connection after sending the decode error
ReplyDecodeError_Closes(i) ==
    /\ i \in DOMAIN reqs
    /\ reqs[i].pc = "undecoded"
    /\ wire' = [wire EXCEPT ![reqs[i].conn] =
                   Append(@, Text([kind |-> "String",
                                   message |-> FromStr(reqs[i].req).val]))]
    /\ reqs' = [reqs EXCEPT ![i].pc = "done"]
    /\ conn' = [conn EXCEPT ![reqs[i].conn].state = "closed"]
    /\ UNCHANGED <<client, password, concurrent_limit, mailbox>>
    /\ UNCHANGED <<storageVars, obsVars>>

\* the handler of a frame that did not decode locks the write half and sends
\* a text frame holding the error's string, and ends
ReplyDecodeError(i) ==
    /\ i \in DOMAIN reqs
    /\ reqs[i].pc = "undecoded"
    /\ wire' = [wire EXCEPT ![reqs[i].conn] =
                   Sent(reqs[i].conn, Text([kind |-> "String",
                                            message |-> FromStr(reqs[i].req).val]))]
    /\ reqs' = [reqs EXCEPT ![i].pc = "done"]
    /\ UNCHANGED <<client, password, concurrent_limit, conn, mailbox>>
    /\ UNCHANGED <<storageVars, obsVars>>

\* the task of connection c is dropped (the accept loop ended and the runtime
\* shuts down): its handlers are dropped where they wait, one that waits to
\* send never sends, and the receiver of a command already in the channel is
\* closed
AfterDrop(pc) ==
    CASE pc = "queued" -> "abandoned"
      [] pc \in {"sending", "replied", "undecoded", "closing", "pinged"} -> "dropped"
      [] OTHER -> pc

DropTask(c) ==
    /\ conn[c].state = "open"
    /\ conn' = [conn EXCEPT ![c].state = "dropped"]
    /\ reqs' = [i \in DOMAIN reqs |->
                  IF reqs[i].conn = c
                  THEN [reqs[i] EXCEPT !.pc = AfterDrop(reqs[i].pc)]
                  ELSE reqs[i]]
    /\ UNCHANGED <<client, password, concurrent_limit, mailbox, wire>>
    /\ UNCHANGED <<storageVars, obsVars>>

\* mutant: a message loop that reads on after the Close was sent back
CloseEcho_KeepsReading(i) ==
    /\ i \in DOMAIN reqs
    /\ reqs[i].pc = "closing"
    /\ wire' = [wire EXCEPT ![reqs[i].conn] = Append(@, CloseMessage)]
    /\ conn' = [conn EXCEPT ![reqs[i].conn].state = "open"]
    /\ reqs' = [reqs EXCEPT ![i].pc = "done"]
    /\ UNCHANGED <<client, password, concurrent_limit, mailbox>>
    /\ UNCHANGED <<storageVars, obsVars>>

\* the handler of a Close frame locks the write half and sends the Close
\* back: one Close frame goes out, and the connection is closed
CloseEcho(i) ==
    /\ i \in DOMAIN reqs
    /\ reqs[i].pc = "closing"
    /\ wire' = [wire EXCEPT ![reqs[i].conn] = Append(@, CloseMessage)]
    /\ conn' = [conn EXCEPT ![reqs[i].conn].state = "closed"]
    /\ reqs' = [reqs EXCEPT ![i].pc = "done"]
    /\ UNCHANGED <<client, password, concurrent_limit, mailbox>>
    /\ UNCHANGED <<storageVars, obsVars>>

\* the handler of a Ping frame locks the write half and sends a Pong
Pong(i) ==
    /\ i \in DOMAIN reqs
    /\ reqs[i].pc = "pinged"
    /\ ~WriteLocked(reqs[i].conn)
    /\ wire' = [wire EXCEPT ![reqs[i].conn] = Sent(reqs[i].conn, PongMessage)]
    /\ reqs' = [reqs EXCEPT ![i].pc = "done"]
    /\ UNCHANGED <<client, password, concurrent_limit, conn, mailbox>>
    /\ UNCHANGED <<storageVars, obsVars>>

\* SpecServer: the server of a deployment with or without a password, started
\* on the snapshot file that an earlier run of the server created
LeftFile == Encrypt(DumpKey, Encode(EmptyMap), 1)

InitDeployed ==
    /\ running = FALSE
    /\ aes = NoKey
    /\ data = EmptyMap
    /\ cache = <<>>
    /\ checksum = Hash(NoFile)
    /\ file = LeftFile
    /\ last = NoCall
    /\ lastMut = NoCall
    /\ afterSet = FALSE
    /\ openedEmpty = FALSE
    /\ live = {}
    /\ recency = <<>>
    /\ InitConns

InitServer == InitDeployed /\ password \in Passwords /\ concurrent_limit = NoLimit

NextServer ==
    \/ \E nonce \in FreshNonces : Start(DumpKey, nonce)
    \/ \E c \in Conns, header \in Headers : Upgrade(c, header)
    \/ \E c \in Conns, request \in Requests : ClientSend(c, request)
    \/ \E i \in 1..MaxRequests : Receive(i)
    \/ \E i \in 1..MaxRequests : Enqueue(i)
    \/ \E outcome \in WriteOutcomes, nonce \in FreshNonces :
          ExecutorStep(outcome, nonce)
    \/ \E i \in 1..MaxRequests : Reply(i)

SpecServer == InitServer /\ [][NextServer]_vars

\* SpecAuth: the server of a deployment with a password, whose clients offer
\* every kind of header and send requests that change the map
AuthRequests == {r \in Requests : r.op \in {"Set", "Delete"}}

InitAuth == InitServer /\ password.some

NextAuth ==
    \/ \E nonce \in FreshNonces : Start(DumpKey, nonce)
    \/ \E c \in Conns, header \in Headers : Upgrade(c, header)
    \/ \E c \in Conns, request \in AuthRequests : ClientSend(c, request)
    \/ \E i \in 1..MaxRequests : Receive(i)
    \/ \E i \in 1..MaxRequests : Enqueue(i)
    \/ \E outcome \in WriteOutcomes, nonce \in FreshNonces :
          ExecutorStep(outcome, nonce)
    \/ \E i \in 1..MaxRequests : Reply(i)

SpecAuth == InitAuth /\ [][NextAuth]_vars

\* SpecWire: the server of a deployment without a password, whose clients
\* connect without an Authorization header and send requests that change the
\* map and requests that read it
WireRequests == {r \in Requests : r.op \in {"Set", "Get", "Delete", "Exists", "Clear"}}

InitWire == InitServer /\ ~password.some

NextWire ==
    \/ \E nonce \in FreshNonces : Start(DumpKey, nonce)
    \/ \E c \in Conns : Upgrade(c, NoString)
    \/ \E c \in Conns, request \in WireRequests : ClientSend(c, request)
    \/ \E i \in 1..MaxRequests : Receive(i)
    \/ \E i \in 1..MaxRequests : Enqueue(i)
    \/ \E outcome \in WriteOutcomes, nonce \in FreshNonces :
          ExecutorStep(outcome, nonce)
    \/ \E i \in 1..MaxRequests : Reply(i)

SpecWire == InitWire /\ [][NextWire]_vars

\* SpecFrames: as SpecWire, with clients that send frames that do not decode
\* among Set and Get requests
Frames == {Garbage} \cup {r \in Requests : r.op \in {"Set", "Get"}}

NextFrames ==
    \/ \E nonce \in FreshNonces : Start(DumpKey, nonce)
    \/ \E c \in Conns : Upgrade(c, NoString)
    \/ \E c \in Conns, text \in Frames : ClientSend(c, text)
    \/ \E i \in 1..MaxRequests : Receive(i)
    \/ \E i \in 1..MaxRequests : Enqueue(i)
    \/ \E nonce \in FreshNonces : ExecutorStep("ok", nonce)
    \/ \E i \in 1..MaxRequests : Reply(i)
    \/ \E i \in 1..MaxRequests : ReplyDecodeError(i)

SpecFrames == InitWire /\ [][NextFrames]_vars

\* SpecCap: as SpecFrames, in deployments with every concurrent_limit
InitCap == InitDeployed /\ password = NoString /\ concurrent_limit \in Limits

SpecCap == InitCap /\ [][NextFrames]_vars

\* SpecTamper: the server of a deployment without a password is started on
\* the snapshot an earlier run left, with the dump_password of that run or
\* another one, after the file was or was not changed from outside
NextTamper ==
    \/ \E kind \in TamperKinds : Tamper(kind)
    \/ \E key \in CipherKeys, nonce \in FreshNonces : Start(key, nonce)
    \/ \E c \in Conns : Upgrade(c, NoString)
    \/ \E c \in Conns, request \in AuthRequests : ClientSend(c, request)
    \/ \E i \in 1..MaxRequests : Receive(i)
    \/ \E i \in 1..MaxRequests : Enqueue(i)
    \/ \E outcome \in WriteOutcomes, nonce \in FreshNonces :
          ExecutorStep(outcome, nonce)
    \/ \E i \in 1..MaxRequests : Reply(i)

SpecTamper == InitWire /\ [][NextTamper]_vars

\* SpecDrop: as SpecAuth without a password and with no Sync that fails, with
\* connection tasks that are dropped while their commands wait in the channel
NextDrop ==
    \/ \E nonce \in FreshNonces : Start(DumpKey, nonce)
    \/ \E c \in Conns : Upgrade(c, NoString)
    \/ \E c \in Conns, request \in AuthRequests : ClientSend(c, request)
    \/ \E i \in 1..MaxRequests : Receive(i)
    \/ \E i \in 1..MaxRequests : Enqueue(i)
    \/ \E nonce \in FreshNonces : ExecutorStep("ok", nonce)
    \/ \E i \in 1..MaxRequests : Reply(i)
    \/ \E c \in Conns : DropTask(c)

SpecDrop == InitWire /\ [][NextDrop]_vars

\* SpecClose: as SpecWire, with clients that send a Close frame among Set and
\* Get requests, and no Sync that fails
ClosingFrames == {CloseFrame} \cup {r \in Requests : r.op \in {"Set", "Get"}}

NextClose ==
    \/ \E nonce \in FreshNonces : Start(DumpKey, nonce)
    \/ \E c \in Conns : Upgrade(c, NoString)
    \/ \E c \in Conns, frame \in ClosingFrames : ClientSend(c, frame)
    \/ \E i \in 1..MaxRequests : Receive(i)
    \/ \E i \in 1..MaxRequests : Enqueue(i)
    \/ \E nonce \in FreshNonces : ExecutorStep("ok", nonce)
    \/ \E i \in 1..MaxRequests : Reply(i)
    \/ \E i \in 1..MaxRequests : CloseEcho(i)

SpecClose == InitWire /\ [][NextClose]_vars

\* SpecLock: as SpecWire with Set and Get requests and no Sync that fails,
\* the handlers taking the write half and sending their frame in steps
NextLock ==
    \/ \E nonce \in FreshNonces : Start(DumpKey, nonce)
    \/ \E c \in Conns : Upgrade(c, NoString)
    \/ \E c \in Conns, request \in Requests :
          request.op \in {"Set", "Get"} /\ ClientSend(c, request)
    \/ \E i \in 1..MaxRequests : Receive(i)
    \/ \E i \in 1..MaxRequests : Enqueue(i)
    \/ \E nonce \in FreshNonces : ExecutorStep("ok", nonce)
    \/ \E i \in 1..MaxRequests : LockWrite(i)
    \/ \E i \in 1..MaxRequests : SendHead(i)
    \/ \E i \in 1..MaxRequests : SendTail(i)

SpecLock == InitWire /\ [][NextLock]_vars

\* SpecOwn: the server of a deployment without a password; clients connect
\* with and without a header and send frames of every type, among them Set
\* requests, and their connections fail or end; no Sync fails
OwnFrames ==
    {PingFrame, BinaryFrame, TransportError, StreamEnd, Garbage,
     Request("Set", KeyOf(1), <<7>>)}

NextOwn ==
    \/ \E nonce \in FreshNonces : Start(DumpKey, nonce)
    \/ \E c \in Conns, header \in {NoString, SomeString("guess")} : Upgrade(c, header)
    \/ \E c \in Conns, frame \in OwnFrames : ClientSend(c, frame)
    \/ \E i \in 1..MaxRequests : Receive(i)
    \/ \E i \in 1..MaxRequests : Enqueue(i)
    \/ \E nonce \in FreshNonces : ExecutorStep("ok", nonce)
    \/ \E i \in 1..MaxRequests : Reply(i)
    \/ \E i \in 1..MaxRequests : ReplyDecodeError(i)
    \/ \E i \in 1..MaxRequests : Pong(i)

SpecOwn == InitWire /\ [][NextOwn]_vars

\* SpecLive: as SpecLock in deployments with every concurrent_limit and with
\* clients that send Set requests, under the scheduling of the runtime: a
\* task that can go on is run in the end (the Executor's loop, the message
\* loop of each connection, a handler that waits for room in the channel or
\* for the write half, a handler that writes)
Fairness ==
    /\ WF_vars(\E nonce \in FreshNonces : ExecutorStep("ok", nonce))
    /\ \A i \in 1..MaxRequests :
          /\ WF_vars(Receive(i))
          /\ WF_vars(Enqueue(i))
          /\ WF_vars(LockWrite(i))
          /\ WF_vars(SendHead(i))
          /\ WF_vars(SendTail(i))

NextLive ==
    \/ \E nonce \in FreshNonces : Start(DumpKey, nonce)
    \/ \E c \in Conns : Upgrade(c, NoString)
    \/ \E c \in Conns : ClientSend(c, Request("Set", KeyOf(1), <<7>>))
    \/ \E i \in 1..MaxRequests : Receive(i)
    \/ \E i \in 1..MaxRequests : Enqueue(i)
    \/ \E nonce \in FreshNonces : ExecutorStep("ok", nonce)
    \/ \E i \in 1..MaxRequests : LockWrite(i)
    \/ \E i \in 1..MaxRequests : SendHead(i)
    \/ \E i \in 1..MaxRequests : SendTail(i)

SpecLive == InitCap /\ [][NextLive]_vars /\ Fairness

-----------------------------------------------------------------------------
(* api/src/lib.rs: the client library *)

\* CKeyLockConnection::parse_response: the frame is a text frame that decodes
\* as a Response, or else as an ErrorResponse, with the id of the request
ParseResponse(msg, req_id) ==
    /\ msg.type = "Text"
    /\ msg.payload.kind \in {"Response", "ErrorResponse"}
    /\ msg.payload.reqid = req_id

\* send_request of call k: the request is wrapped with a new id and sent with
\* the Mutex of the stream held for the send
CallSend(k, request) ==
    /\ client.calls[k].pc = "start"
    /\ client.holder = 0
    /\ conn[ClientConn].state = "open"
    /\ Len(reqs) < MaxRequests
    /\ LET id == Cardinality(SentOn(ClientConn)) + 1
       IN /\ reqs' = Append(reqs, [conn |-> ClientConn, id |-> id, req |-> request,
                                   pc |-> "socket", reply |-> NoReply, seq |-> 0,
                                   lock |-> FALSE])
          /\ client' = [client EXCEPT !.calls[k].pc = "locking", !.calls[k].id = id]
    /\ UNCHANGED <<password, concurrent_limit, conn, mailbox, wire>>
    /\ UNCHANGED <<storageVars, obsVars>>

\* the loop of send_request locks the Mutex of the stream
CallLock(k) ==
    /\ client.calls[k].pc = "locking"
    /\ client.holder = 0
    /\ client' = [client EXCEPT !.calls[k].pc = "reading", !.holder = k]
    /\ UNCHANGED <<password, concurrent_limit, conn, reqs, mailbox, wire>>
    /\ UNCHANGED <<storageVars, obsVars>>

\* with the Mutex held the call takes the next frame from the stream: it
\* returns the frame if parse_response finds its id in it, and else drops the
\* frame and goes round the loop; either way the guard is dropped
CallNext(k) ==
    /\ client.calls[k].pc = "reading"
    /\ client.taken < Len(wire[ClientConn])
    /\ LET n == client.taken + 1
       IN IF ParseResponse(wire[ClientConn][n], client.calls[k].id)
          THEN client' = [client EXCEPT !.calls[k].pc = "returned", !.calls[k].got = n,
                                        !.holder = 0, !.taken = n]
          ELSE client' = [client EXCEPT !.calls[k].pc = "locking", !.holder = 0,
                                        !.taken = n, !.dropped = @ \cup {n}]
    /\ UNCHANGED <<password, concurrent_limit, conn, reqs, mailbox, wire>>
    /\ UNCHANGED <<storageVars, obsVars>>

\* SpecClient: the server of a deployment without a password and a client
\* program whose calls of set and get run at the same time on one
\* CKeyLockConnection; the tasks of the server and the calls are scheduled
\* fairly
NextClient ==
    \/ \E nonce \in FreshNonces : Start(DumpKey, nonce)
    \/ Upgrade(ClientConn, NoString)
    \/ \E k \in Calls, request \in Requests :
          request.op \in {"Set", "Get"} /\ CallSend(k, request)
    \/ \E i \in 1..MaxRequests : Receive(i)
    \/ \E i \in 1..MaxRequests : Enqueue(i)
    \/ \E nonce \in FreshNonces : ExecutorStep("ok", nonce)
    \/ \E i \in 1..MaxRequests : Reply(i)
    \/ \E k \in Calls : CallLock(k)
    \/ \E k \in Calls : CallNext(k)

ClientFairness ==
    /\ WF_vars(\E nonce \in FreshNonces : ExecutorStep("ok", nonce))
    /\ \A i \in 1..MaxRequests :
          WF_vars(Receive(i)) /\ WF_vars(Enqueue(i)) /\ WF_vars(Reply(i))
    /\ \A k \in Calls : WF_vars(CallLock(k)) /\ WF_vars(CallNext(k))

SpecClient == InitWire /\ [][NextClient]_vars /\ ClientFairness

-----------------------------------------------------------------------------
(* Claims about Storage *)

Range(seq) == {seq[i] : i \in 1..Len(seq)}

\* the call returned Ok(x)
Returned(res, x) == res.ok /\ res.val = x

\* what Storage::from_file would load from the file under the cipher key
SnapshotMap(key) ==
    LET decrypted_content == Decrypt(key, file)
    IN IF decrypted_content.ok THEN Ok(Decode(decrypted_content.content))
       ELSE Err("StorageError")

\* C1: a Get(k) that follows a Set(k,v), with no mutating call in between,
\* returns exactly v, for every key and value, the empty ones included.
C1_RoundTrip ==
    (last.op = "Get" /\ lastMut.op = "Set" /\ last.key = lastMut.key)
        => last.res = Ok(Some(lastMut.value))

\* C1 happens: the empty value was set to the empty key and read back.
C1_Witness ==
    /\ last.op = "Get" /\ lastMut.op = "Set"
    /\ last.key = <<>> /\ lastMut.key = <<>> /\ lastMut.value = <<>>
    /\ last.res = Ok(Some(<<>>))

\* C2: when the last Sync (the one of the last Delete or Clear) returned
\* success, whatever failed before, the snapshot file opens under the same
\* cipher to a map identical to the map in memory.
C2_SnapshotDurability ==
    (running /\ lastMut.op \in {"Delete", "Clear"} /\ lastMut.res.ok)
        => Returned(SnapshotMap(aes), data)

\* C3: a Set(k,v) that changes the map leaves a snapshot file that decodes to
\* the current map, and a Storage opened again after it answers Get(k) with v.
C3_SetStep ==
    /\ (last'.op = "Set" /\ data' # data) => Returned(SnapshotMap(aes), data)'
    /\ (~running /\ running' /\ lastMut.op = "Set")
          => Returned(StorageGet(lastMut.key).res, Some(lastMut.value))'
C3_SetTriggersSync == [][C3_SetStep]_vars

\* C7: after Set(k,v) then Delete(k), with no other mutating call in between
\* or after, Get(k) returns absence and Exists(k) returns false.
C7_Deletion ==
    (lastMut.op = "Delete" /\ afterSet /\ last.key = lastMut.key)
        => /\ last.op = "Get" => last.res = Ok(None)
           /\ last.op = "Exists" => last.res = Ok(FALSE)

\* C7 happens: the key was set, deleted (it was there), and then looked up.
C7_Witness ==
    /\ lastMut.op = "Delete" /\ afterSet
    /\ Returned(lastMut.res, Some(lastMut.key))
    /\ last.op = "Get" /\ last.key = lastMut.key

\* C8: a Get(k) after Set(k,v1) then Set(k,v2) returns v2, and a Set of a key
\* that is already in the map leaves Count as it was.
C8_GetAfterOverwrite ==
    (lastMut.op = "Set" /\ afterSet /\ last.op = "Get" /\ last.key = lastMut.key)
        => last.res = Ok(Some(lastMut.value))
C8_CountKept ==
    (last'.op = "Set" /\ last'.key \in DOMAIN data)
        => (StorageCount.res)' = StorageCount.res
C8_Overwrite == []C8_GetAfterOverwrite /\ [][C8_CountKept]_vars

\* C8 happens: a key was set twice and then read.
C8_Witness ==
    /\ lastMut.op = "Set" /\ afterSet /\ lastMut.value = <<>>
    /\ last.op = "Get" /\ last.key = lastMut.key

\* C9: on a Storage opened empty, Count returns the number of distinct keys
\* that were Set and not afterwards Deleted or Cleared.
C9_CountAccounting ==
    (running /\ openedEmpty /\ last.op = "Count") => last.res = Ok(Cardinality(live))

\* C9 happens: after sets and a delete, one key is left and Count was called.
C9_Witness ==
    /\ running /\ openedEmpty /\ last.op = "Count" /\ last.res = Ok(1)
    /\ lastMut.op = "Delete" /\ Returned(lastMut.res, Some(lastMut.key))

\* the keys a List returned are, without duplicates, those Exists is true for
ListMatches(keys) ==
    /\ Range(keys) = {k \in Keys : StorageExists(k).res.val}
    /\ Len(keys) = Cardinality(Range(keys))

\* C10: in every reachable state List returns, as a set and without
\* duplicates, exactly the keys for which Exists is true.
C10_ListCompleteness ==
    /\ running => ListMatches(StorageList.res.val)
    /\ last.op = "List" => ListMatches(last.res.val)

\* C10 happens: List was called on a map of two keys.
C10_Witness == last.op = "List" /\ Len(last.res.val) = 2

\* a lookup of k in the map alone
MapLookup(d, k) == IF k \in DOMAIN d THEN Some(d[k]) ELSE None

\* C11: in every reachable state, whatever the cache holds and whatever was
\* evicted from it, Get(k) returns what a lookup of k in the map alone gives,
\* and so did the Get that was last answered.
C11_CacheTransparency ==
    running =>
        /\ \A k \in Keys : StorageGet(k).res = Ok(MapLookup(data, k))
        /\ last.op = "Get" => last.res = Ok(MapLookup(data, last.key))

\* C11 happens: the map holds more keys than the cache, the cache is full,
\* and a Get of a key that the Set of another key had pushed out of the cache
\* returned its value.
C11_Witness ==
    /\ Cardinality(DOMAIN data) > LRU_CACHE_SIZE /\ Len(cache) = LRU_CACHE_SIZE
    /\ lastMut.op = "Set" /\ last.op = "Get" /\ last.key # lastMut.key
    /\ last.res = Ok(Some(<<7>>))

\* C14: a Set, Delete or Clear that leaves the map as it was, when the
\* snapshot file holds that map, does not touch the file and leaves the
\* checksum as it was, also right after an existing snapshot was opened.
C14_IdempotentStep ==
    (running /\ last'.op \in Mutations /\ data' = data
        /\ Returned(SnapshotMap(aes), data))
        => (file' = file /\ checksum' = checksum)
C14_IdempotentNoIO == [][C14_IdempotentStep]_vars

\* C15: a Delete or Clear whose Sync fails returns a StorageError, and the
\* map and the cache are as the mutation made them: the key is removed from
\* both and the other entries stay, or both are empty.
C15_FailedSyncStep ==
    (running /\ last'.op \in {"Delete", "Clear"} /\ ~last'.res.ok)
        => /\ last'.res.val = "StorageError"
           /\ last'.op = "Delete" =>
                 /\ data' = Remove(data, last'.key)
                 /\ cache' = CachePop(cache, last'.key)
                 /\ last'.key \notin DOMAIN data'
                 /\ ~CacheHas(cache', last'.key)
           /\ last'.op = "Clear" => (data' = EmptyMap /\ cache' = <<>>)
C15_SyncFailureSemantics == [][C15_FailedSyncStep]_vars

\* C15 happens: a key was set, the Delete of it returned an error, and the
\* key is in neither the map nor the cache while another key is still there.
C15_Witness ==
    /\ running /\ last.op = "Delete" /\ afterSet /\ ~last.res.ok
    /\ last.key \notin DOMAIN data /\ ~CacheHas(cache, last.key)
    /\ DOMAIN data # {}

\* Delete(k) leaves k out of the map and every other entry as it was
DeleteEffect(k) ==
    /\ k \notin DOMAIN data'
    /\ \A j \in Keys \ {k} : MapLookup(data', j) = MapLookup(data, j)

\* C19 as stated, in every step: Delete(k) returns the key k when k was in
\* the map and absence when it was missing, never an error, and leaves k out
\* of the map and the other entries as they were.
C19_DeleteNeverFails ==
    [][(running /\ last'.op = "Delete")
          => /\ Returned(last'.res, IF last'.key \in DOMAIN data
                                    THEN Some(last'.key) ELSE None)
             /\ DeleteEffect(last'.key)]_vars

\* C19, amended, in every step: Delete(k) returns an error only when its Sync
\* had a changed map to write, and then it is StorageError; when it returns
\* no error it returns the key k if k was in the map and absence if it was
\* missing; in every case k is not in the map afterwards and the other
\* entries are as they were.
C19_DeleteStep ==
    (running /\ last'.op = "Delete")
        => /\ last'.res.ok
                 => last'.res.val = (IF last'.key \in DOMAIN data
                                     THEN Some(last'.key) ELSE None)
           /\ ~last'.res.ok
                 => /\ last'.res.val = "StorageError"
                    /\ checksum # Hash(Plain(Encode(Remove(data, last'.key))))
           /\ DeleteEffect(last'.key)

\* C19, amended: unless its Sync fails, Delete(k) returns the key k exactly
\* when k was in the map before the call and absence when it was missing; in
\* every case k is not in the map afterwards and all other entries are
\* unchanged.
C19_DeleteResult == [][C19_DeleteStep]_vars

\* C19 happens: a Delete returned the key it removed and another entry is
\* still in the map.
C19_Witness ==
    /\ last.op = "Delete"
    /\ Returned(last.res, Some(last.key))
    /\ data # EmptyMap

\* C20: a Storage opened on a path with no file has written the encryption
\* of the empty map's encoding to the file, holds the digest of that plaintext
\* encoding as its checksum, an empty map and an empty cache, and counts 0;
\* a Storage opened again on that file with the same cipher key, before any
\* mutating call, holds the empty map.
C20_FreshStart ==
    /\ (running /\ openedEmpty /\ last.op = "Open")
          => /\ file = Encrypt(aes, Encode(EmptyMap), file.nonce)
             /\ Decrypt(aes, file) = [ok |-> TRUE, content |-> Encode(EmptyMap)]
             /\ checksum = Hash(Plain(Encode(EmptyMap)))
             /\ data = EmptyMap
             /\ cache = <<>>
             /\ StorageCount.res = Ok(0)
    /\ (running /\ ~openedEmpty /\ lastMut.op = "none")
          => (data = EmptyMap /\ StorageCount.res = Ok(0))

\* C20 happens: the Storage was created on a path with no file, stopped, and
\* opened again on the file it left.
C20_Witness ==
    /\ running /\ ~openedEmpty
    /\ last.op = "Open" /\ lastMut.op = "none"
    /\ file = Encrypt(aes, Encode(EmptyMap), file.nonce)

\* C21, in every state: after an open that failed the error is the AEAD
\* error, there is no Storage, and the Executor and the listener were not
\* started: no connection, no request, no command.
C21_FailedOpen ==
    (last.op = "Open" /\ ~last.res.ok)
        => /\ last.res.val = AesError
           /\ ~running /\ aes = NoKey /\ data = EmptyMap
           /\ \A c \in Conns : conn[c].state = "none"
           /\ reqs = <<>> /\ mailbox = <<>>

\* C21, in every step: a Storage is constructed on a file that was there only
\* if the whole blob verifies under the key given, and an open, failed or
\* not, leaves a file that was there as it was.
C21_OpenStep ==
    /\ (~running /\ running' /\ file # NoFile)
          => (file.whole /\ file.enc /\ file.key = aes')
    /\ (~running /\ file # NoFile /\ last'.op = "Open") => file' = file

\* C21: opening a snapshot whose blob is shorter than 12 bytes, was altered
\* or was written under another key fails with the AEAD error; no Storage is
\* constructed, no Executor is started, and the file is left as it was.
C21_TamperDetection == []C21_FailedOpen /\ [][C21_OpenStep]_vars

\* C21 happens: the open of a snapshot one byte of which was altered failed.
C21_Witness ==
    /\ last.op = "Open" /\ ~last.res.ok
    /\ ~file.whole /\ file.key = DumpKey

\* C23: when the first call on a Storage opened from an existing snapshot is
\* a Set, a Delete or a Clear, the call rewrites the snapshot file (the blob
\* has a fresh nonce, so the file differs).
C23_FirstMutationWrites ==
    [][(running /\ ~openedEmpty /\ last.op = "Open" /\ last'.op \in Mutations)
          => file' # file]_vars

\* C24: the snapshot file, once created, holds a complete blob in every
\* state, also after a Sync whose write failed; it is never empty or partial.
C24_AtomicRewrite == file # NoFile => (file.whole /\ file.enc)

\* C25: every key held in the cache is in the map with the value cached, and
\* is held once; right after a Set its value is in the cache, right after a
\* Delete its key is not in the cache, whether or not the Sync failed, and
\* right after a Clear the cache is empty.
C25_CacheCoherence ==
    running =>
        /\ \A i \in 1..Len(cache) :
              /\ cache[i].k \in DOMAIN data
              /\ data[cache[i].k] = cache[i].v
              /\ \A j \in 1..Len(cache) : cache[j].k = cache[i].k => j = i
        /\ last.op = "Set" => CacheGet(cache, last.key) = Some(last.value)
        /\ last.op = "Delete" => ~CacheHas(cache, last.key)
        /\ last.op = "Clear" => cache = <<>>

\* C25 happens: a key was set, so it was in the cache, and the Delete of it
\* failed in its Sync; the key is in neither the map nor the cache.
C25_Witness ==
    /\ running
    /\ last.op = "Delete" /\ ~last.res.ok
    /\ lastMut = last /\ afterSet
    /\ last.key \notin DOMAIN data /\ ~CacheHas(cache, last.key)

\* the keys of the cache
CacheKeys(c) == {c[i].k : i \in 1..Len(c)}

\* the place of key k among the keys touched, 1 for the one touched last
TouchedAt(k) == CHOOSE i \in 1..Len(recency) : recency[i] = k

\* C26, in every state: the cache holds at most LRU_CACHE_SIZE entries, and
\* they are the keys touched last, in the order touched.
C26_CacheBound ==
    /\ Len(cache) <= LRU_CACHE_SIZE
    /\ Len(cache) <= Len(recency)
    /\ \A i \in 1..Len(cache) : cache[i].k = recency[i]

\* C26, in every step: when a Set or a Get puts a key that is not cached into
\* a full cache, one key leaves the cache; every key that stays was touched
\* after it, and it is still in the map.
C26_EvictionStep ==
    (/\ running /\ last'.op \in {"Set", "Get"}
     /\ Len(cache) = LRU_CACHE_SIZE
     /\ ~CacheHas(cache, last'.key) /\ CacheHas(cache', last'.key))
        => \E evicted \in CacheKeys(cache) :
              /\ CacheKeys(cache') = (CacheKeys(cache) \ {evicted}) \cup {last'.key}
              /\ \A k \in CacheKeys(cache) : TouchedAt(k) <= TouchedAt(evicted)
              /\ evicted \in DOMAIN data'
              /\ data'[evicted] = data[evicted]

IsPrefix(a, b) == Len(a) <= Len(b) /\ \A i \in 1..Len(a) : a[i] = b[i]

\* C27, in every step: a Get, List, Exists or Count leaves the map, the file
\* and the checksum as they were; a List, Exists or Count leaves the cache as
\* it was, entries and order; a Get of a key that is not in the map leaves
\* the cache as it was, and a Get of a key that is in the map puts that key
\* with its value first and leaves the other entries in their order, less
\* the one it evicts.
C27_ReadStep ==
    (running /\ last'.op \in {"Get", "List", "Exists", "Count"})
        => /\ data' = data /\ file' = file /\ checksum' = checksum
           /\ last'.op \in {"List", "Exists", "Count"} => cache' = cache
           /\ (last'.op = "Get" /\ last'.key \notin DOMAIN data) => cache' = cache
           /\ (last'.op = "Get" /\ last'.key \in DOMAIN data)
                 => /\ cache' # <<>>
                    /\ cache'[1] = [k |-> last'.key, v |-> data[last'.key]]
                    /\ IsPrefix(CacheWithout(cache', last'.key),
                                CacheWithout(cache, last'.key))

\* C27: Get, List, Exists and Count leave the map, the snapshot file and the
\* checksum unchanged; List, Exists and Count leave the cache unchanged; Get
\* changes the cache only by refreshing or inserting the key it looked up.
C27_ReadsHaveNoEffect == [][C27_ReadStep]_vars

\* C27 happens: an Exists found a key that is in the map and not in the
\* cache, and the key is still not in the cache.
C27_Witness ==
    /\ running
    /\ last.op = "Exists" /\ Returned(last.res, TRUE)
    /\ ~CacheHas(cache, last.key) /\ cache # <<>>

-----------------------------------------------------------------------------
(* Claims about the server *)

\* the frames written to connection c that answer request i
Answers(i) ==
    {n \in 1..Len(wire[reqs[i].conn]) :
        /\ wire[reqs[i].conn][n].payload.kind # "String"
        /\ wire[reqs[i].conn][n].payload.reqid = reqs[i].id}

\* C4: for every request variant, a request whose Storage operation failed is
\* answered with an ErrorResponse that carries its id, and never with a
\* success Response.
C4_ErrorsBecomeErrorResponses ==
    \A i \in DOMAIN reqs :
        (reqs[i].pc = "done" /\ ~reqs[i].reply.ok)
            => /\ Answers(i) # {}
               /\ \A n \in Answers(i) :
                     wire[reqs[i].conn][n].payload.kind = "ErrorResponse"

\* C5: with no password configured, an upgrade is accepted whether or not it
\* carries an Authorization header, whatever the header's value.
C5_NoPasswordAcceptsAll ==
    \A c \in Conns :
        (~password.some /\ conn[c].state # "none") => conn[c].state = "open"

\* the upgrade request of connection c carried the configured password
HeaderMatches(c) ==
    password.some /\ conn[c].header.some /\ conn[c].header.val = password.val

\* C6, in every state: with a password configured a connection is open only
\* if its header equals the password, a missing or different header is
\* rejected, and the frames of a connection that is not open stay unread.
C6_OnlyMatchingAccepted ==
    password.some =>
        /\ \A c \in Conns :
              /\ conn[c].state = "open" => HeaderMatches(c)
              /\ (conn[c].state # "none" /\ ~HeaderMatches(c))
                    => conn[c].state \in {"rejected", "panicked"}
              /\ (conn[c].state # "none" /\ ~HeaderMatches(c)
                    /\ (conn[c].header.some => ToStr(conn[c].header.val).ok))
                    => conn[c].state = "rejected"
        /\ \A i \in DOMAIN reqs :
              conn[reqs[i].conn].state # "open"
                  => /\ reqs[i].pc = "socket"
                     /\ \A n \in 1..Len(mailbox) : mailbox[n] # i

\* C6, in every step: with a password configured the Store of the running
\* server changes only when the Executor takes a command that came from a
\* connection whose header matched.
C6_StoreStep ==
    (password.some /\ running /\ <<data, cache, file, checksum>>' # <<data, cache, file, checksum>>)
        => /\ mailbox # <<>>
           /\ HeaderMatches(reqs[Head(mailbox)].conn)
           /\ conn[reqs[Head(mailbox)].conn].state = "open"

VariantFor(op) ==
    CASE op = "Set" -> "SetResponse"
      [] op = "Get" -> "GetResponse"
      [] op = "Delete" -> "DeleteResponse"
      [] op = "List" -> "ListResponse"
      [] op = "Exists" -> "ExistsResponse"
      [] op = "Count" -> "CountResponse"
      [] op = "Clear" -> "ClearResponse"

\* the requests of connection c that were answered
DoneOn(c) == {i \in SentOn(c) : reqs[i].pc = "done" /\ FromStr(reqs[i].req).ok}

\* the frames written to connection c that are envelopes
Envelopes(c) == {n \in 1..Len(wire[c]) : wire[c][n].payload.kind # "String"}

TakenAt(n) == CHOOSE i \in DOMAIN reqs : reqs[i].seq = n

\* a map with no cache and no file: what the first n commands taken make of
\* the empty map when applied one after the other
RECURSIVE MapAfter(_)
MapAfter(n) ==
    IF n = 0 THEN EmptyMap
    ELSE LET request == reqs[TakenAt(n)].req
             before == MapAfter(n - 1)
         IN CASE request.op = "Set" -> Insert(before, request.key, request.value)
              [] request.op = "Delete" -> Remove(before, request.key)
              [] request.op = "Clear" -> EmptyMap
              [] OTHER -> before

\* what the n-th command returns on that map
SequentialResult(n) ==
    LET request == reqs[TakenAt(n)].req
        before == MapAfter(n - 1)
    IN CASE request.op = "Set" -> request.key
         [] request.op = "Get" -> MapLookup(before, request.key)
         [] request.op = "Delete" ->
               IF request.key \in DOMAIN before THEN Some(request.key) ELSE None
         [] request.op = "List" -> KeysFrom(before, 0)
         [] request.op = "Exists" -> request.key \in DOMAIN before
         [] request.op = "Count" -> Cardinality(DOMAIN before)
         [] request.op = "Clear" -> "unit"

\* C13: the commands the Executor took are numbered one by one in the order
\* taken, every reply that is no error equals what the command returns when
\* the commands are applied to a plain map one after the other in that order,
\* and the map of the Storage is the map they leave; so a Get taken after a
\* Set of its key returns the value set, whichever connections they came from.
C13_Linearisation ==
    running =>
        /\ {reqs[i].seq : i \in Taken} = 1..Cardinality(Taken)
        /\ \A i \in DOMAIN reqs : (i \in Taken) = (reqs[i].pc \in {"replied", "done"})
        /\ \A n \in 1..Cardinality(Taken) :
              reqs[TakenAt(n)].reply.ok
                  => reqs[TakenAt(n)].reply.val = SequentialResult(n)
        /\ data = MapAfter(Cardinality(Taken))

\* C13 happens: a Get was sent first on one connection, the Set of its key on
\* another connection was taken before it, and the Get returned the value set.
C13_Witness ==
    \E i \in DOMAIN reqs, j \in DOMAIN reqs :
        /\ j < i /\ reqs[i].conn # reqs[j].conn
        /\ reqs[i].req.op = "Set" /\ reqs[i].seq = 1
        /\ reqs[j].req.op = "Get" /\ reqs[j].seq = 2
        /\ reqs[j].reply = Ok(Some(reqs[i].req.value))

\* the frames of connection c that did not decode and whose handler is done
UndecodedOn(c) == {i \in SentOn(c) : ~FromStr(reqs[i].req).ok /\ reqs[i].pc = "done"}

\* C16, in every state: a frame that does not decode is never a command of
\* the Executor; once handled, exactly one text frame holding the decode
\* error string was sent for it and its connection is open, and the next
\* frame of the connection can be read.
C16_DecodeErrorAnswered ==
    /\ \A i \in DOMAIN reqs :
          ~FromStr(reqs[i].req).ok
              => /\ reqs[i].seq = 0 /\ reqs[i].reply = NoReply
                 /\ \A n \in 1..Len(mailbox) : mailbox[n] # i
                 /\ reqs[i].pc = "done" => conn[reqs[i].conn].state = "open"
    /\ \A c \in Conns :
          /\ Len(wire[c]) - Cardinality(Envelopes(c)) = Cardinality(UndecodedOn(c))
          /\ \A n \in (1..Len(wire[c])) \ Envelopes(c) :
                wire[c][n] = Text([kind |-> "String",
                                   message |-> "expected value at line 1 column 1"])
    /\ \A j \in DOMAIN reqs :
          (/\ reqs[j].pc = "socket"
           /\ \E i \in UndecodedOn(reqs[j].conn) : i < j
           /\ \A i \in 1..(j - 1) : reqs[i].conn = reqs[j].conn => reqs[i].pc # "socket")
              => ENABLED Receive(j)

\* C16, in every step: reading a frame that does not decode and sending its
\* error leave the map, the cache, the checksum, the snapshot file and the
\* Executor's channel as they were.
C16_DecodeErrorStep ==
    (\E i \in DOMAIN reqs : ~FromStr(reqs[i].req).ok /\ reqs'[i].pc # reqs[i].pc)
        => UNCHANGED <<data, cache, checksum, file, mailbox>>

\* C16: a text frame that does not decode as a RequestWrapper is answered
\* with one text frame holding the error string, enqueues no command, changes
\* nothing in the Storage and leaves the connection open for later frames.
C16_MalformedFrame == []C16_DecodeErrorAnswered /\ [][C16_DecodeErrorStep]_vars

\* C16 happens: the first frame of a connection did not decode and got the
\* error string, and the Set sent after it on the same connection was carried
\* out and answered with a Response.
C16_Witness ==
    \E c \in Conns :
        /\ Len(wire[c]) = 2
        /\ wire[c][1].payload.kind = "String"
        /\ wire[c][2].payload.kind = "Response"
        /\ wire[c][2].payload.variant = "SetResponse"
        /\ KeyOf(1) \in DOMAIN data

\* the positions of the channel that hold the command of request i
SlotsOf(i) == {n \in 1..Len(mailbox) : mailbox[n] = i}

\* C17, in every state: the channel holds at most its capacity; the command
\* of a request is in the channel exactly once while it is queued and not at
\* all otherwise, and a command whose handler has gone past the send is
\* waiting for room, in the channel, or taken by the Executor; a waiting
\* sender goes on as soon as there is room.
C17_BoundedChannel ==
    /\ Len(mailbox) <= MailboxCapacity
    /\ \A i \in DOMAIN reqs :
          /\ Cardinality(SlotsOf(i)) = (IF reqs[i].pc = "queued" THEN 1 ELSE 0)
          /\ FromStr(reqs[i].req).ok
                => /\ reqs[i].pc \in {"socket", "sending", "queued", "replied", "done"}
                   /\ (reqs[i].seq > 0) = (reqs[i].pc \in {"replied", "done"})
          /\ (reqs[i].pc = "sending" /\ Len(mailbox) < MailboxCapacity)
                => ENABLED Enqueue(i)

\* C17, in every step: a sender starts to wait only when the channel is
\* full; the channel changes only by a sender's command going to its end or
\* by the Executor taking its first command, which it then carries out.
C17_ChannelStep ==
    /\ \A i \in DOMAIN reqs :
          (reqs[i].pc # "sending" /\ reqs'[i].pc = "sending")
              => (Len(mailbox) = MailboxCapacity /\ mailbox' = mailbox)
    /\ \/ mailbox' = mailbox
       \/ \E i \in DOMAIN reqs :
             /\ reqs[i].pc \in {"socket", "sending"}
             /\ mailbox' = Append(mailbox, i)
       \/ /\ mailbox # <<>>
          /\ mailbox' = Tail(mailbox)
          /\ reqs'[Head(mailbox)].seq = Cardinality(Taken) + 1

NextToRead(j) ==
    /\ reqs[j].pc = "socket"
    /\ conn[reqs[j].conn].state = "open"
    /\ \A i \in 1..(j - 1) : reqs[i].conn = reqs[j].conn => reqs[i].pc # "socket"

\* C18 as stated: with a limit N configured, a connection has at most N
\* frames between being read and the end of their handler.
C18_CapAsConfigured ==
    \A c \in Conns :
        concurrent_limit.some => Cardinality(InFlight(c)) <= concurrent_limit.val

\* C18, in every state: with a limit N >= 1 a connection has at most N frames
\* between being read and the end of their handler; with no limit, or a limit
\* of 0, the next frame of an open connection can always be read.
C18_CapState ==
    /\ \A c \in Conns :
          (concurrent_limit.some /\ concurrent_limit.val >= 1)
              => Cardinality(InFlight(c)) <= concurrent_limit.val
    /\ \A j \in DOMAIN reqs :
          (NextToRead(j) /\ (~concurrent_limit.some \/ concurrent_limit.val = 0))
              => ENABLED Receive(j)

\* C18, in every step: with a limit N >= 1 a frame is read only when fewer
\* than N frames of its connection are in flight.
C18_CapStep ==
    \A i \in DOMAIN reqs :
        (/\ concurrent_limit.some /\ concurrent_limit.val >= 1
         /\ reqs[i].pc = "socket" /\ reqs'[i].pc # "socket")
            => Cardinality(InFlight(reqs[i].conn)) < concurrent_limit.val

\* C18, amended: with a limit N >= 1 configured at most N frames of one
\* connection are in flight at any time and no further frame of it is read
\* while N are in flight; with no limit, or a limit of 0, the number is
\* not bounded.
C18_ConcurrencyCap == []C18_CapState /\ [][C18_CapStep]_vars

\* C18 happens: with a limit of 1, one frame of a connection is in flight and
\* the next frame of that connection waits in the socket.
C18_Witness ==
    /\ concurrent_limit = SomeLimit(1)
    /\ \E c \in Conns :
          /\ Cardinality(InFlight(c)) = 1
          /\ \E j \in SentOn(c) : NextToRead(j)

\* the commands whose reply nobody could receive
Lost == {i \in DOMAIN reqs : reqs[i].pc = "lost"}

\* C22, in every state: the Executor takes the next command whenever there is
\* one, whatever became of the replies before; a command whose reply could
\* not be delivered was taken and numbered like every other, and the map is
\* what all commands taken, those included, make of it in the order taken.
C22_LoopGoesOn ==
    /\ mailbox # <<>> => ENABLED (\E nonce \in FreshNonces : ExecutorStep("ok", nonce))
    /\ Lost \subseteq Taken
    /\ {reqs[i].seq : i \in Taken} = 1..Cardinality(Taken)
    /\ running => data = MapAfter(Cardinality(Taken))

\* C22, in every step: the command of a closed reply channel is applied to
\* the Storage when it is taken: a Set puts its value in the map and a Delete
\* takes its key out, and no frame is written for it.
C22_AppliedStep ==
    (mailbox # <<>> /\ mailbox' = Tail(mailbox) /\ reqs[Head(mailbox)].pc = "abandoned")
        => LET request == reqs[Head(mailbox)].req
           IN /\ reqs'[Head(mailbox)].pc = "lost"
              /\ request.op = "Set" => MapLookup(data', request.key) = Some(request.value)
              /\ request.op = "Delete" => request.key \notin DOMAIN data'
              /\ wire' = wire

\* C22: when the reply channel of a command is closed the Executor still
\* applies the command to the Storage, does not roll it back, and goes on to
\* take every later command.
C22_UndeliverableReplies == []C22_LoopGoesOn /\ [][C22_AppliedStep]_vars

\* C22 happens: the Set of a dropped connection was taken first, its value is
\* in the map, and a command taken after it was answered.
C22_Witness ==
    \E i \in Lost, j \in DOMAIN reqs :
        /\ reqs[i].req.op = "Set" /\ reqs[i].seq = 1
        /\ MapLookup(data, reqs[i].req.key) = Some(reqs[i].req.value)
        /\ reqs[j].seq = 2 /\ reqs[j].pc = "done"

\* the places of the Close frames the server wrote to connection c
ClosesOn(c) == {n \in 1..Len(wire[c]) : wire[c][n].type = "Close"}

\* C28, in every state: the server wrote at most one Close frame to a
\* connection, as the last frame, and wrote it exactly when the handler of
\* the Close frame it received is done; the handler of a Close frame can
\* always send; and a frame the client sent after its Close frame stays in
\* the socket: it has no handler and no command.
C28_CloseEndsLoop ==
    /\ \A c \in Conns :
          /\ Cardinality(ClosesOn(c)) <= 1
          /\ ClosesOn(c) \subseteq {Len(wire[c])}
          /\ (ClosesOn(c) # {}) = (conn[c].state = "closed")
          /\ (ClosesOn(c) # {})
                = (\E i \in SentOn(c) : IsClose(reqs[i].req) /\ reqs[i].pc = "done")
    /\ \A i \in DOMAIN reqs :
          /\ reqs[i].pc = "closing" => ENABLED CloseEcho(i)
          /\ (IsClose(reqs[i].req) /\ reqs[i].pc # "socket")
                => \A j \in SentOn(reqs[i].conn) :
                      j > i => /\ reqs[j].pc = "socket" /\ reqs[j].seq = 0
                               /\ SlotsOf(j) = {}

\* C28 happens: a Close frame was received and one Close frame sent back,
\* and the Set the client sent after it on that connection was not carried
\* out.
C28_Witness ==
    \E c \in Conns, i \in DOMAIN reqs, j \in DOMAIN reqs :
        /\ reqs[i].conn = c /\ reqs[j].conn = c /\ i < j
        /\ IsClose(reqs[i].req) /\ reqs[i].pc = "done"
        /\ wire[c] = <<CloseMessage>>
        /\ reqs[j].req.op = "Set" /\ reqs[j].pc = "socket"
        /\ running /\ data = EmptyMap

\* C29: with a limit of 1, of two frames of one connection the second is
\* read only when the handler of the first is done; the Executor takes the
\* command of the first before that of the second; and the frames written to
\* the connection answer its frames one by one in the order received.
C29_InOrderWithCapOne ==
    concurrent_limit = SomeLimit(1) =>
        /\ \A i \in DOMAIN reqs, j \in DOMAIN reqs :
              (i < j /\ reqs[i].conn = reqs[j].conn /\ reqs[j].pc # "socket")
                  => /\ reqs[i].pc = "done"
                     /\ (FromStr(reqs[i].req).ok /\ FromStr(reqs[j].req).ok /\ reqs[j].seq > 0)
                           => (0 < reqs[i].seq /\ reqs[i].seq < reqs[j].seq)
        /\ \A c \in Conns :
              /\ Len(wire[c]) = Cardinality({i \in SentOn(c) : reqs[i].pc = "done"})
              /\ \A i \in SentOn(c) :
                    (reqs[i].pc = "done" /\ FromStr(reqs[i].req).ok)
                        => /\ wire[c][reqs[i].id].payload.kind # "String"
                           /\ wire[c][reqs[i].id].payload.reqid = reqs[i].id

\* C29 happens: with a limit of 1 two requests of one connection were taken
\* by the Executor and answered in the order sent.
C29_Witness ==
    /\ concurrent_limit = SomeLimit(1)
    /\ \E c \in Conns, i \in DOMAIN reqs, j \in DOMAIN reqs :
          /\ i < j /\ reqs[i].conn = c /\ reqs[j].conn = c
          /\ reqs[i].seq = 1 /\ reqs[j].seq = 2
          /\ reqs[i].pc = "done" /\ reqs[j].pc = "done"
          /\ Len(wire[c]) = 2
          /\ wire[c][1].payload.reqid = 1 /\ wire[c][2].payload.reqid = 2

\* the handlers of connection c that hold the guard of its write half
Holders(c) == {i \in SentOn(c) : reqs[i].lock}

\* C30, in every state: at most one handler of a connection holds the write
\* half; a handler that holds it has the result of the Executor and waits
\* neither for room in the channel nor for the Executor; and the bytes
\* written to a connection are whole frames one after the other, the last
\* one possibly still going out from the handler that holds the write half.
C30_WriteHalfExclusive ==
    \A c \in Conns :
        /\ Cardinality(Holders(c)) <= 1
        /\ \A i \in Holders(c) :
              /\ reqs[i].pc \in {"writing", "flushing"}
              /\ reqs[i].seq > 0
              /\ reqs[i].reply.ok \/ reqs[i].reply.val # NoReply.val
              /\ SlotsOf(i) = {}
        /\ \A i \in SentOn(c) : reqs[i].pc \in {"writing", "flushing"} => reqs[i].lock
        /\ \A n \in 1..Len(wire[c]) :
              /\ wire[c][n].part = (IF n % 2 = 1 THEN "head" ELSE "tail")
              /\ n % 2 = 0 => wire[c][n].payload = wire[c][n - 1].payload
        /\ Len(wire[c]) % 2 = 1
              => \E i \in Holders(c) :
                    /\ reqs[i].pc = "flushing"
                    /\ wire[c][Len(wire[c])].payload = ReplyMessage(i).payload

\* C30 happens: two handlers of one connection had their results at the same
\* time; one holds the write half with half of its frame written, the other
\* waits for the write half.
C30_Witness ==
    \E c \in Conns, i \in DOMAIN reqs, j \in DOMAIN reqs :
        /\ reqs[i].conn = c /\ reqs[j].conn = c
        /\ reqs[i].pc = "flushing" /\ reqs[i].lock
        /\ reqs[j].pc = "replied" /\ ~reqs[j].lock
        /\ Len(wire[c]) = 1

\* the step is one of the Executor's loop: a command leaves the channel
TakesCommand == mailbox # <<>> /\ mailbox' = Tail(mailbox)

\* the step is one of the task of connection c: its upgrade is answered, or
\* its message loop reads an item, or a handler of it that needs no Executor
\* (decode error, Ping) ends
TaskStep(c) ==
    \/ conn'[c] # conn[c]
    \/ \E i \in SentOn(c) :
          /\ reqs[i].pc \in {"socket", "undecoded", "pinged"}
          /\ reqs'[i].pc # reqs[i].pc

\* C31, in every step of the running server: the map, the cache, the
\* snapshot file and the checksum change only when the Executor takes a
\* command from its channel; and a step of a connection's task (upgrade,
\* reading and decoding a frame, Ping, Binary frame, transport error, end of
\* the stream) leaves all four, and the connection state, the frames written
\* and the requests of every other connection as they were.
C31_OwnStep ==
    /\ running /\ <<data, cache, checksum, file>>' # <<data, cache, checksum, file>>
          => TakesCommand
    /\ \A c \in Conns :
          TaskStep(c) =>
              /\ <<data, cache, checksum, file>>' = <<data, cache, checksum, file>>
              /\ \A d \in Conns \ {c} :
                    /\ conn'[d] = conn[d]
                    /\ wire'[d] = wire[d]
                    /\ \A j \in SentOn(d) : reqs'[j] = reqs[j]

C31_ExclusiveOwnership == [][C31_OwnStep]_vars

\* C31 happens: the Executor has changed the map for a request of one
\* connection, which was answered, while another connection's stream ended.
C31_Witness ==
    \E c \in Conns, d \in Conns :
        /\ c # d
        /\ conn[c].state = "ended" /\ conn[d].state = "open"
        /\ KeyOf(1) \in DOMAIN data
        /\ wire[d] # <<>>
        /\ \E i \in SentOn(c) : EndsStream(reqs[i].req) /\ reqs[i].pc = "done"

\* request i was decoded and its handler has called Executor::execute
Decoded(i) == i \in DOMAIN reqs /\ reqs[i].pc \in {"sending", "queued"}

\* the reply frames for request i written to its connection so far
RepliesTo(i) ==
    {n \in 1..Len(wire[reqs[i].conn]) :
        /\ wire[reqs[i].conn][n].part = "head"
        /\ wire[reqs[i].conn][n].payload.reqid = reqs[i].id}

\* the Executor has taken the command of request i, and its handler has sent
\* the reply frame and ended
Answered(i) ==
    /\ i \in DOMAIN reqs
    /\ reqs[i].pc = "done" /\ reqs[i].seq > 0
    /\ Cardinality(RepliesTo(i)) = 1

\* some task of the server can take a step
CanStep ==
    \/ ENABLED (\E nonce \in FreshNonces : ExecutorStep("ok", nonce))
    \/ \E i \in 1..MaxRequests :
          \/ ENABLED Receive(i)
          \/ ENABLED Enqueue(i)
          \/ ENABLED LockWrite(i)
          \/ ENABLED SendHead(i)
          \/ ENABLED SendTail(i)

\* C32, no state of the server has every task blocked
C32_NoDeadlock == (\E i \in DOMAIN reqs : reqs[i].pc # "done") => CanStep

\* C32, no request is ever answered with more than one frame
C32_OneReply == \A i \in DOMAIN reqs : Cardinality(RepliesTo(i)) <= 1

\* C32, on connections that stay open, with every concurrent_limit and a
\* channel that is full, under fair scheduling: whenever frames are
\* unanswered some task can take a step, and every decoded request is in the
\* end taken by the Executor and answered with exactly one reply frame.
C32_EventualReply ==
    /\ [](C32_NoDeadlock /\ C32_OneReply)
    /\ \A i \in 1..MaxRequests : Decoded(i) ~> Answered(i)

\* C32 happens: the channel is full, and behind the command in it a second
\* decoded request waits for room.
C32_Witness ==
    \E i \in DOMAIN reqs :
        /\ reqs[i].pc = "sending"
        /\ Len(mailbox) = MailboxCapacity
        /\ \A n \in 1..Len(mailbox) : reqs[mailbox[n]].pc = "queued"

\* the step is a call that ends in a Sync: Delete or Clear
EndsInSync == last'.op \in {"Delete", "Clear"}

\* C33, in every step of an open Storage: the checksum changes only in a
\* Delete or Clear whose Sync wrote the whole new blob and returned Ok; after
\* a Sync that failed the checksum is the one from before; and after a Sync
\* that wrote and returned Ok the file holds the encryption of the encoded
\* map and the checksum is the digest of that encoding.
C33_ChecksumStep ==
    (running /\ running') =>
        /\ checksum' # checksum
              => (EndsInSync /\ last'.res.ok /\ file' # file
                    /\ file'.whole /\ file'.enc)
        /\ (EndsInSync /\ ~last'.res.ok) => checksum' = checksum
        /\ (EndsInSync /\ last'.res.ok /\ file' # file)
              => /\ file' = Encrypt(aes, Encode(data'), file'.nonce)
                 /\ checksum' = Hash(Plain(file'.body))

C33_ChecksumTracksFile == [][C33_ChecksumStep]_vars

\* C33 happens: a Sync wrote a map that is not empty, and a later Delete or
\* Clear failed in its Sync: the checksum is still the digest of the encoding
\* that the earlier Sync wrote.
C33_Witness ==
    /\ running /\ last.op \in {"Delete", "Clear"} /\ ~last.res.ok
    /\ \E k \in Keys, v \in Values :
          checksum = Hash(Plain(Encode(Insert(EmptyMap, k, v))))
    /\ file # Encrypt(aes, checksum.digest_of.body, file.nonce)

-----------------------------------------------------------------------------
(* Claims about the client library *)

\* the frame that call k returned
Got(k) == wire[ClientConn][client.calls[k].got]

\* C34, for calls of send_request that run at the same time on one
\* connection, the server sending a reply for each: a call returns only a
\* reply with the id of its own request; no frame that is the reply to one
\* call is taken from the stream and dropped by another; and every call that
\* has sent its request returns in the end.
C34_ConcurrentCalls ==
    /\ [](\A k \in Calls :
            client.calls[k].pc = "returned"
                => Got(k).payload.reqid = client.calls[k].id)
    /\ [](\A n \in client.dropped :
            \A k \in Calls : ~ParseResponse(wire[ClientConn][n], client.calls[k].id))
    /\ \A k \in Calls :
          (client.calls[k].pc # "start") ~> (client.calls[k].pc = "returned")

=============================================================================
